---- MODULE Spec2Model ----
(***************************************************************************)
(* Overlay interaction controller of the Slack Patch content script:       *)
(* src/src/content/index.ts (module state, shortcut detection, flow) and   *)
(* src/src/content/modal.ts (SlackPatchModal), with the part of            *)
(* slack-dom (src/unnamed/part_000) the flow calls.                        *)
(*                                                                         *)
(* The program state is threaded through the operators as one record w     *)
(* (World); every action computes the record its handler leaves behind     *)
(* and commits it to the variables.                                        *)
(***************************************************************************)
EXTENDS Integers, Sequences, FiniteSets, TLC

\* ---------------------------------------------------------------- bounds
MaxModals == 2          \* SlackPatchModal objects constructed in one run
MaxRequests == 1        \* PROOFREAD messages in flight at once
MaxOverlapping == 2     \* the same, in the runs that let requests overlap
MaxCalls == 2           \* calls of utils/storage.ts in one run
MaxTimers == 1          \* pending post-write-back timers at once
MaxSettingsReqs == 2    \* GET_SETTINGS messages in flight at once
MaxFrames == 1          \* pending requestAnimationFrame callbacks at once
MaxKids == 2            \* child nodes of a composer whose DOM is read
MaxLine == 4            \* pieces of a markdown line that is rendered

\* ---------------------------------------------------------------- domains
TypedTexts == {"a"}                        \* what the user types into a host input
EditedTexts == {"b"}                       \* what the user types into the overlay
CorrectedTexts == {"c"}                    \* what the correction service answers
Presets == {"p1", "p2"}                    \* preset ids of the settings
NoPreset == "undefined"                    \* presetId omitted from a request
Elems == {"composer", "container", "thread"}   \* host elements
NoElem == "null"
Keys == {"Escape", "Enter", "ModEnter", "ShiftEnter"}   \* ShiftEnter: any key no shortcut uses
States == {"loading", "preview", "ready", "error", "sending"}

\* The element document.querySelector('[data-message-input="true"]') finds.
MessageInputEl == "composer"
\* Elements matching the container selectors of disableSlackInputs.
InputContainers == {"container"}
\* Elements that carry a contenteditable attribute.
EditableEls == {"composer", "thread"}
\* INPUT_SELECTORS, as the order in which their matches are tried.
INPUT_SELECTORS == <<"composer", "thread">>

\* The callbacks object startProofreadFlow hands to the modal.
Callbacks == {"onSend", "onCancel", "onRetry", "onPresetChange"}

\* Where a listener of the host page can sit on the path of a key event, in
\* the order the event visits them: capture listeners on window; capture
\* listeners on document added before, and after, the listeners of the
\* content script; listeners below document and bubble-phase listeners.
HostListeners == {"window", "documentEarly", "documentLate", "target"}

VARIABLES
    currentModal,        \* index.ts: 0 (null) or the id of a modal
    currentInputField,   \* index.ts: NoElem or a host element
    cachedSettings,      \* index.ts: [loaded, apiKey, activePresetId]
    cachedInputField,    \* slack-dom: last resolved composer
    contextValid,        \* chrome.runtime.id is present
    apiKeyStored,        \* the stored settings hold an API key
    settingsReqs,        \* GET_SETTINGS in flight: "" (initialize) or a flow's text
    proofReqs,           \* PROOFREAD in flight: [text, presetId]
    timers,              \* pending setTimeout callbacks of handleSend
    modals,              \* id -> SlackPatchModal fields
    nextModal,           \* modals constructed so far
    host,                \* host element -> [ce: isContentEditable, inert, text,
                         \* hidden: inside an aria-hidden subtree, visible:
                         \* what isVisible reads, attached: in the document]
    listeners,           \* capture keydown interceptors on document, in order
    activeElement,       \* document.activeElement: host element, "body", or the
                         \* id of the modal whose shadow tree holds the focus
    shadowActive,        \* shadowRoot.activeElement of the modal that holds the
                         \* focus: a control of its tree, or "none" where the
                         \* control is not followed
    frames,              \* pending requestAnimationFrame callbacks of the
                         \* focus-out handlers: [m, surface, from]
    capacity,            \* how many PROOFREAD messages this run lets be in
                         \* flight at once
    storage,             \* utils/storage.ts on its own: what chrome.storage.local
                         \* holds under STORAGE_KEY (stored), what it held at
                         \* first (initial), the calls made (calls) and the
                         \* requests chrome.storage.local has yet to answer
                         \* (queue)
    markup,              \* slack-dom's conversions on their own: [stage, field,
                         \* text, nodes, parts], and the variables of their
                         \* loops: remaining, lastIndex
    trace                \* what the last step did: the key pressed, the callbacks
                         \* called (fired) or found undefined (threw), the texts
                         \* handed to setInputText (wrote), the elements a submit
                         \* was dispatched on, whether the key was suppressed,
                         \* the host listeners the key reached, what the page
                         \* was like when an overlay was attached (opened),
                         \* what findActiveInputField returned (found), and how
                         \* the messaging channel failed (channel)

vars == <<currentModal, currentInputField, cachedSettings, cachedInputField,
          contextValid, apiKeyStored, settingsReqs, proofReqs, timers, modals,
          nextModal, host, listeners, activeElement, shadowActive, frames, capacity,
          storage, markup, trace>>

ModalIds == 1..MaxModals

\* The value of activeElement while the focus is inside modal m's shadow tree.
Overlay(m) == ToString(m)

NoTextarea == [exists |-> FALSE, value |-> "", attached |-> FALSE, disabled |-> FALSE]

\* No PROOFREAD message.
NoReq == [text |-> "", presetId |-> ""]

\* Field initialisers and constructor of SlackPatchModal; shown, hides, preCE
\* and failed (the request whose failure put the modal into error, kept while
\* the modal is the current one) are history.
NewModal(text) ==
    [created |-> TRUE, state |-> "loading", originalText |-> "", proofreadText |-> "",
     errorMessage |-> "", activePresetId |-> "", hasApiKey |-> FALSE,
     beforeTextarea |-> NoTextarea, afterTextarea |-> NoTextarea,
     disabledInputField |-> NoElem, inertElements |-> {},
     boundEventInterceptor |-> FALSE, boundFocusOutHandler |-> FALSE,
     attached |-> FALSE, cbText |-> text,
     shown |-> FALSE, hides |-> 0, preCE |-> FALSE, failed |-> NoReq]

NoModal == [NewModal("") EXCEPT !.created = FALSE]

\* A DOM node: a text node holds text; an element holds its child nodes, its
\* href attribute (<<>>: none) and, as text, its data-stringify-emoji
\* attribute. A string is the sequence of its pieces: the characters the
\* conversions look for, one by one, and runs of other characters.
Text(t) == [tag |-> "#text", kids |-> <<>>, text |-> t, href |-> <<>>]

El(tag, kids) == [tag |-> tag, kids |-> kids, text |-> <<>>, href |-> <<>>]

\* How a markdown text was put together: a line of pieces, or a fenced
\* block inside a larger text.
NoParts == [kind |-> "", before |-> <<>>, lead |-> FALSE, body |-> <<>>,
            trail |-> FALSE, after |-> <<>>]

NoMarkup == [stage |-> "", field |-> El("", <<>>), text |-> <<>>, nodes |-> <<>>,
             parts |-> NoParts, remaining |-> <<>>, lastIndex |-> 0]

\* No call of utils/storage.ts was made and nothing was ever saved.
NoStorage == [initial |-> <<>>, stored |-> <<>>, calls |-> <<>>, queue |-> <<>>]

NoSettings == [loaded |-> FALSE, apiKey |-> FALSE, activePresetId |-> ""]

NoTrace == [key |-> "", fired |-> <<>>, threw |-> <<>>,
            wrote |-> <<>>, submitted |-> <<>>, prevented |-> FALSE, reached |-> {},
            opened |-> <<>>, found |-> <<>>, channel |-> ""]

World ==
    [cm |-> currentModal, cif |-> currentInputField, cached |-> cachedSettings,
     cache |-> cachedInputField, valid |-> contextValid, sreqs |-> settingsReqs,
     reqs |-> proofReqs, timers |-> timers, modals |-> modals, next |-> nextModal,
     host |-> host, lis |-> listeners, act |-> activeElement, sa |-> shadowActive,
     frames |-> frames, tr |-> trace, sendThrows |-> FALSE]

Commit(result) ==
    \E w \in {result} :
    /\ currentModal' = w.cm
    /\ currentInputField' = w.cif
    /\ cachedSettings' = w.cached
    /\ cachedInputField' = w.cache
    /\ contextValid' = w.valid
    /\ settingsReqs' = w.sreqs
    /\ proofReqs' = w.reqs
    /\ timers' = w.timers
    /\ modals' = w.modals
    /\ nextModal' = w.next
    /\ host' = w.host
    /\ listeners' = w.lis
    /\ activeElement' = w.act
    /\ shadowActive' = IF w.act \in {Overlay(m) : m \in ModalIds} THEN w.sa ELSE "none"
    /\ frames' = w.frames
    /\ trace' = w.tr
    /\ UNCHANGED <<apiKeyStored, capacity, storage, markup>>
    /\ w.next <= MaxModals
    /\ Len(w.reqs) <= capacity
    /\ w.timers <= MaxTimers
    /\ Len(w.sreqs) <= MaxSettingsReqs
    /\ Len(w.frames) <= MaxFrames

\* The world at the start of a handler: the trace of the previous step is dropped.
Begin(key) == [World EXCEPT !.tr = [NoTrace EXCEPT !.key = key]]

\* The same, in a step in which chrome.runtime.sendMessage raises if throws.
BeginSend(key, throws) == [Begin(key) EXCEPT !.sendThrows = throws]

Remove(s, i) == SubSeq(s, 1, i - 1) \o SubSeq(s, i + 1, Len(s))

Without(s, x) == SelectSeq(s, LAMBDA y : y # x)

\* F applied to the value of v: v is evaluated once, then handed on.
Then(v, F(_)) == CHOOSE r \in {F(x) : x \in {v}} : TRUE

\* ------------------------------------------------------------ modal.ts
\* render() with createContent(): which text surfaces exist afterwards.
render(md) ==
    IF md.state = "preview" /\ md.beforeTextarea.exists /\ md.beforeTextarea.attached
    THEN [md EXCEPT !.beforeTextarea.value = md.originalText]
    ELSE CASE md.state = "preview" ->
                [md EXCEPT !.afterTextarea.attached = FALSE,
                           !.beforeTextarea =
                               [exists |-> TRUE, value |-> md.originalText,
                                attached |-> TRUE, disabled |-> FALSE]]
           [] md.state \in {"ready", "sending"} ->
                [md EXCEPT !.beforeTextarea.attached = FALSE,
                           !.afterTextarea =
                               [exists |-> TRUE, value |-> md.proofreadText,
                                attached |-> TRUE, disabled |-> (md.state = "sending")]]
           [] OTHER ->
                [md EXCEPT !.beforeTextarea.attached = FALSE,
                           !.afterTextarea.attached = FALSE]

\* render() rebuilding the tree of modal m removes the control that has the
\* focus, and the focus falls back to body.
rebuilt(w, m) ==
    IF w.act = Overlay(m) /\ w.sa # "none" THEN [w EXCEPT !.act = "body", !.sa = "none"]
    ELSE w

\* errorMessage is read by createContent in state error only, and setError
\* writes it on every entry to that state: outside error the model keeps "".
setLoading(w, m) ==
    rebuilt([w EXCEPT !.modals[m] = Then([@ EXCEPT !.state = "loading", !.errorMessage = "",
                                                   !.failed = NoReq], render)], m)

setResult(w, m, text) ==
    rebuilt([w EXCEPT !.modals[m] = Then([@ EXCEPT !.proofreadText = text, !.state = "ready",
                                                   !.errorMessage = "", !.failed = NoReq],
                                         render)], m)

setError(w, m, message) ==
    rebuilt([w EXCEPT !.modals[m] = Then([@ EXCEPT !.errorMessage = message, !.state = "error",
                                                   !.failed = NoReq], render)], m)

setSending(w, m) ==
    rebuilt([w EXCEPT !.modals[m] = Then([@ EXCEPT !.state = "sending", !.errorMessage = "",
                                                   !.failed = NoReq], render)], m)

\* disableSlackInputs(): the three passes, in order; the queries find
\* elements of the document only.
disableSlackInputs(w0, m) ==
    LET inputField(w) ==
            IF w.host[MessageInputEl].attached /\ w.host[MessageInputEl].ce
            THEN [w EXCEPT !.host[MessageInputEl].ce = FALSE,
                           !.modals[m].disabledInputField = MessageInputEl]
            ELSE w
        mark(w, es) ==
            [w EXCEPT !.host = [e \in Elems |->
                                  IF e \in es THEN [@[e] EXCEPT !.inert = TRUE] ELSE @[e]],
                      !.modals[m].inertElements = @ \cup es]
        inputContainers(w) ==
            mark(w, {c \in InputContainers : w.host[c].attached /\ ~w.host[c].inert})
        editableElements(w) ==
            mark(w, {e \in EditableEls :
                        w.host[e].attached /\ w.host[e].ce /\ ~w.host[e].inert})
    IN  Then(Then(Then(w0, inputField), inputContainers), editableElements)

\* restoreSlackInputs() without its contentEditable block.
restoreSlackInputs_KeepFlag(w0, m) ==
    LET inert(w) ==
            [w EXCEPT !.host = [e \in Elems |->
                                  IF e \in w.modals[m].inertElements
                                  THEN [@[e] EXCEPT !.inert = FALSE] ELSE @[e]],
                      !.modals[m].inertElements = {},
                      !.modals[m].disabledInputField = NoElem]
    IN  Then(w0, inert)

\* restoreSlackInputs() with toggleAttribute('inert') for removeAttribute and
\* the list of marked elements kept.
restoreSlackInputs_Toggle(w0, m) ==
    LET contentEditable(w) ==
            IF w.modals[m].disabledInputField # NoElem
            THEN [w EXCEPT !.host[w.modals[m].disabledInputField].ce = TRUE,
                           !.modals[m].disabledInputField = NoElem]
            ELSE w
        inert(w) ==
            [w EXCEPT !.host = [e \in Elems |->
                                  IF e \in w.modals[m].inertElements
                                  THEN [@[e] EXCEPT !.inert = ~@] ELSE @[e]]]
    IN  Then(Then(w0, contentEditable), inert)

\* restoreSlackInputs()
restoreSlackInputs(w0, m) ==
    LET contentEditable(w) ==
            IF w.modals[m].disabledInputField # NoElem
            THEN [w EXCEPT !.host[w.modals[m].disabledInputField].ce = TRUE,
                           !.modals[m].disabledInputField = NoElem]
            ELSE w
        inert(w) ==
            [w EXCEPT !.host = [e \in Elems |->
                                  IF e \in w.modals[m].inertElements
                                  THEN [@[e] EXCEPT !.inert = FALSE] ELSE @[e]],
                      !.modals[m].inertElements = {}]
    IN  Then(Then(w0, contentEditable), inert)

\* setupEventInterception(): the interceptor is added to document, capture phase.
setupEventInterception(w, m) ==
    [w EXCEPT !.modals[m].boundEventInterceptor = TRUE, !.lis = Append(@, m)]

\* removeEventInterception()
removeEventInterception(w, m) ==
    IF w.modals[m].boundEventInterceptor
    THEN [w EXCEPT !.modals[m].boundEventInterceptor = FALSE, !.lis = Without(@, m)]
    ELSE w

\* removeFocusOutPrevention()
removeFocusOutPrevention(w, m) ==
    IF w.modals[m].boundFocusOutHandler
    THEN [w EXCEPT !.modals[m].boundFocusOutHandler = FALSE]
    ELSE w

\* What the page is like for modal m: the focus is off the host inputs, the
\* composer is not editable, the input containers and the editable elements
\* are inert, the interceptor of m is installed.
Prepared(w, m) ==
    [m |-> m,
     blurred |-> w.act \notin Elems,
     nonEditable |-> ~w.host[MessageInputEl].ce,
     inert |-> \A e \in InputContainers \cup {x \in EditableEls : w.host[x].ce} :
                  w.host[e].inert,
     intercepting |-> \E i \in 1..Len(w.lis) : w.lis[i] = m]

\* show() with the container appended and rendered first.
show_AttachFirst(w0, m, originalText, settings) ==
    LET fields(w) ==
            [w EXCEPT !.modals[m].originalText = originalText,
                      !.modals[m].activePresetId = settings.activePresetId,
                      !.modals[m].hasApiKey = settings.apiKey,
                      !.modals[m].state = "preview",
                      !.modals[m].shown = TRUE,
                      !.modals[m].preCE = w.host[MessageInputEl].ce,
                      !.act = "body"]
        disable(w) == disableSlackInputs(w, m)
        intercept(w) == setupEventInterception(w, m)
        append(w) == [w EXCEPT !.modals[m] = Then([@ EXCEPT !.attached = TRUE], render),
                               !.modals[m].boundFocusOutHandler = TRUE,
                               !.tr.opened = Append(@, Prepared(w, m))]
    IN  Then(Then(Then(Then(w0, fields), append), disable), intercept)

\* show(originalText, settings)
show(w0, m, originalText, settings) ==
    LET fields(w) ==
            [w EXCEPT !.modals[m].originalText = originalText,
                      !.modals[m].activePresetId = settings.activePresetId,
                      !.modals[m].hasApiKey = settings.apiKey,
                      !.modals[m].state = "preview",
                      !.modals[m].shown = TRUE,
                      !.modals[m].preCE = w.host[MessageInputEl].ce,
                      !.act = "body"]
        disable(w) == disableSlackInputs(w, m)
        intercept(w) == setupEventInterception(w, m)
        append(w) == [w EXCEPT !.modals[m] = Then([@ EXCEPT !.attached = TRUE], render),
                               !.modals[m].boundFocusOutHandler = TRUE,
                               !.tr.opened = Append(@, Prepared(w, m))]
    IN  Then(Then(Then(Then(w0, fields), disable), intercept), append)

\* hide()
hide(w0, m) ==
    LET removeListeners(w) == removeFocusOutPrevention(removeEventInterception(w, m), m)
        removeChild(w) ==
            IF w.modals[m].attached
            THEN [w EXCEPT !.modals[m].attached = FALSE,
                           !.act = IF @ = Overlay(m) THEN "body" ELSE @]
            ELSE w
        restore(w) == restoreSlackInputs(w, m)
        clear(w) == [w EXCEPT !.modals[m].beforeTextarea = NoTextarea,
                              !.modals[m].afterTextarea = NoTextarea,
                              !.modals[m].hides = IF @ < 2 THEN @ + 1 ELSE @]
    IN  Then(Then(Then(Then(w0, removeListeners), removeChild), restore), clear)

\* ------------------------------------------------------------ slack-dom
\* isValidInputField(element)
isValidInputField(w, e) == e \in EditableEls /\ w.host[e].ce /\ ~w.host[e].hidden

\* isVisible(element)
isVisible(w, e) == w.host[e].visible

\* document.contains(element); querySelectorAll and document.activeElement
\* give elements of the document only.
contains(w, e) == e \in Elems /\ w.host[e].attached

\* findActiveInputField() taking the first valid match of the selectors,
\* visible or not.
findActiveInputField_NoVisibility(w0) ==
    LET find(w) ==
            LET hits == {i \in 1..Len(INPUT_SELECTORS) :
                            /\ contains(w, INPUT_SELECTORS[i])
                            /\ isValidInputField(w, INPUT_SELECTORS[i])
                            /\ TRUE}
                return(el) == [w |-> [w EXCEPT !.tr.found = Append(@, el)], el |-> el]
                resolved(el) == [w |-> [w EXCEPT !.cache = el, !.tr.found = Append(@, el)],
                                 el |-> el]
            IN  IF w.act \in Elems /\ isValidInputField(w, w.act)
                THEN resolved(w.act)
                ELSE IF hits # {}
                THEN resolved(INPUT_SELECTORS[CHOOSE i \in hits : \A j \in hits : i <= j])
                ELSE IF w.cache # NoElem /\ contains(w, w.cache)
                THEN return(w.cache)
                ELSE return(NoElem)
    IN  Then(w0, find)

\* findActiveInputField() returning the cached handle without asking
\* whether the document still contains it.
findActiveInputField_StaleCache(w0) ==
    LET find(w) ==
            LET hits == {i \in 1..Len(INPUT_SELECTORS) :
                            /\ contains(w, INPUT_SELECTORS[i])
                            /\ isValidInputField(w, INPUT_SELECTORS[i])
                            /\ isVisible(w, INPUT_SELECTORS[i])}
                return(el) == [w |-> [w EXCEPT !.tr.found = Append(@, el)], el |-> el]
                resolved(el) == [w |-> [w EXCEPT !.cache = el, !.tr.found = Append(@, el)],
                                 el |-> el]
            IN  IF w.act \in Elems /\ isValidInputField(w, w.act)
                THEN resolved(w.act)
                ELSE IF hits # {}
                THEN resolved(INPUT_SELECTORS[CHOOSE i \in hits : \A j \in hits : i <= j])
                ELSE IF w.cache # NoElem
                THEN return(w.cache)
                ELSE return(NoElem)
    IN  Then(w0, find)

\* findActiveInputField(): focused element, else selector scan, else the
\* cache if the document still contains it, else null.
findActiveInputField(w0) ==
    LET find(w) ==
            LET hits == {i \in 1..Len(INPUT_SELECTORS) :
                            /\ contains(w, INPUT_SELECTORS[i])
                            /\ isValidInputField(w, INPUT_SELECTORS[i])
                            /\ isVisible(w, INPUT_SELECTORS[i])}
                return(el) == [w |-> [w EXCEPT !.tr.found = Append(@, el)], el |-> el]
                resolved(el) == [w |-> [w EXCEPT !.cache = el, !.tr.found = Append(@, el)],
                                 el |-> el]
            IN  IF w.act \in Elems /\ isValidInputField(w, w.act)
                THEN resolved(w.act)
                ELSE IF hits # {}
                THEN resolved(INPUT_SELECTORS[CHOOSE i \in hits : \A j \in hits : i <= j])
                ELSE IF w.cache # NoElem /\ contains(w, w.cache)
                THEN return(w.cache)
                ELSE return(NoElem)
    IN  Then(w0, find)

\* getInputText(inputField)
getInputText(w, e) == w.host[e].text

\* An element takes the focus unless it or an ancestor is inert, it is not
\* editable or it is not in the document.
Parent(e) == IF e = "composer" THEN "container" ELSE NoElem

Focusable(w, e) ==
    /\ e \in EditableEls
    /\ w.host[e].attached
    /\ w.host[e].ce
    /\ ~w.host[e].inert
    /\ (Parent(e) # NoElem => ~w.host[Parent(e)].inert)

\* The element an operation acts on: inputField || findActiveInputField().
resolve(w, inputField) ==
    IF inputField # NoElem THEN [w |-> w, el |-> inputField] ELSE findActiveInputField(w)

\* The steps of setInputText's try block, dispatchInputEvents included, in
\* the order the code takes them.
Steps == <<"focus", "clear", "render", "append", "input", "beforeinput", "change">>

\* Which step raises: 0 for none.
RaiseAt == 0..Len(Steps)

\* The raising steps the overlay flow is run with: none, and render (the
\* composer is cleared, nothing is appended, no event is dispatched).
FlowRaiseAt == {0, 3}

\* The steps completed when step raise raises.
Done(raise) == IF raise = 0 THEN Steps ELSE SubSeq(Steps, 1, raise - 1)

\* setInputText(text, inputField) returning true as soon as the fragment is
\* appended: dispatchInputEvents outside the try block's accounting.
setInputText_EventsUnchecked(w0, text, inputField, raise) ==
    LET did(step) == \E i \in 1..Len(Done(raise)) : Done(raise)[i] = step
        call(w, el, success) ==
            [el |-> el, text |-> text, ok |-> success,
             done |-> IF el = NoElem THEN <<>> ELSE Done(raise),
             state |-> IF w.cm # 0 THEN w.modals[w.cm].state ELSE "",
             disabled |-> w.cm # 0 /\ w.modals[w.cm].afterTextarea.disabled]
        write(r) ==
            IF r.el = NoElem
            THEN [w |-> [r.w EXCEPT !.tr.wrote = Append(@, call(r.w, NoElem, FALSE))],
                  success |-> FALSE]
            ELSE [w |-> [r.w EXCEPT !.act = IF did("focus") /\ Focusable(r.w, r.el)
                                           THEN r.el ELSE @,
                                    !.host[r.el].text = IF did("append") THEN text
                                                        ELSE IF did("clear") THEN ""
                                                        ELSE @,
                                    !.tr.wrote = Append(@, call(r.w, r.el, did("append")))],
                  success |-> did("append")]
    IN  Then(resolve(w0, inputField), write)

\* setInputText(text, inputField). The record appended to tr.wrote keeps what
\* the call did and returned (ok), and the state the current modal was in
\* when it began.
setInputText(w0, text, inputField, raise) ==
    LET did(step) == \E i \in 1..Len(Done(raise)) : Done(raise)[i] = step
        call(w, el, success) ==
            [el |-> el, text |-> text, ok |-> success,
             done |-> IF el = NoElem THEN <<>> ELSE Done(raise),
             state |-> IF w.cm # 0 THEN w.modals[w.cm].state ELSE "",
             disabled |-> w.cm # 0 /\ w.modals[w.cm].afterTextarea.disabled]
        write(r) ==
            IF r.el = NoElem
            THEN [w |-> [r.w EXCEPT !.tr.wrote = Append(@, call(r.w, NoElem, FALSE))],
                  success |-> FALSE]
            ELSE [w |-> [r.w EXCEPT !.act = IF did("focus") /\ Focusable(r.w, r.el)
                                           THEN r.el ELSE @,
                                    !.host[r.el].text = IF did("append") THEN text
                                                        ELSE IF did("clear") THEN ""
                                                        ELSE @,
                                    !.tr.wrote = Append(@, call(r.w, r.el, raise = 0))],
                  success |-> raise = 0]
    IN  Then(resolve(w0, inputField), write)

\* triggerSend(inputField): a submit is dispatched for the resolved element
\* (send button click, else a synthetic Enter); the host sends and empties
\* it if it is its composer still.
triggerSend(w0, inputField) ==
    LET dispatch(r) ==
            IF r.el = NoElem THEN r.w
            ELSE [r.w EXCEPT !.tr.submitted = Append(@, r.el),
                             !.host[r.el].text = IF contains(r.w, r.el) THEN "" ELSE @]
    IN  Then(resolve(w0, inputField), dispatch)

\* ------------------------------------------------------------ index.ts
\* A modal that is hidden and no longer referenced is garbage: of its record
\* only the history (shown, hides, preCE) is kept.
discard(w, m) ==
    [w EXCEPT !.modals[m] = [NoModal EXCEPT !.created = TRUE,
                                            !.shown = w.modals[m].shown,
                                            !.hides = w.modals[m].hides,
                                            !.preCE = w.modals[m].preCE]]

\* closeModal()
closeModal(w0) ==
    LET close(w) ==
            IF w.cm # 0
            THEN [Then(hide(w, w.cm), LAMBDA h : discard(h, w.cm))
                    EXCEPT !.cm = 0, !.cif = NoElem]
            ELSE [w EXCEPT !.cif = NoElem]
    IN  Then(w0, close)

\* requestProofread(text, presetId): the messages are "reload" (the
\* extension was updated, reload the page) and "communication"
\* (communication with the extension failed, reload the page).
requestProofread(w0, text, presetId) ==
    LET request(w) ==
            IF ~w.valid
            THEN IF w.cm # 0
                 THEN setError([w EXCEPT !.tr.channel = "gone"], w.cm, "reload")
                 ELSE w
            ELSE IF w.sendThrows
            THEN IF w.cm # 0
                 THEN setError([w EXCEPT !.tr.channel = "threw"], w.cm, "communication")
                 ELSE w
            ELSE [w EXCEPT !.reqs = Append(@, [text |-> text, presetId |-> presetId])]
    IN  Then(w0, request)

\* handleSend(text) without the setTimeout of its success branch.
handleSend_NoTimer(w0, text, raise) ==
    LET send(w) ==
            IF w.cm = 0 \/ w.cif = NoElem THEN w
            ELSE Then(setInputText(setSending(w, w.cm), text, w.cif, raise),
                      LAMBDA r : IF r.success THEN r.w
                                 ELSE setError(r.w, w.cm, "copy"))
    IN  Then(w0, send)

\* handleSend(text) closing the modal when the write-back fails.
handleSend_CloseOnFailure(w0, text, raise) ==
    LET send(w) ==
            IF w.cm = 0 \/ w.cif = NoElem THEN w
            ELSE Then(setInputText(setSending(w, w.cm), text, w.cif, raise),
                      LAMBDA r : IF r.success THEN [r.w EXCEPT !.timers = @ + 1]
                                 ELSE closeModal(r.w))
    IN  Then(w0, send)

\* handleSend(text) with setSending() moved behind the write-back.
handleSend_WriteFirst(w0, text, raise) ==
    LET send(w) ==
            IF w.cm = 0 \/ w.cif = NoElem THEN w
            ELSE Then(setInputText(w, text, w.cif, raise),
                      LAMBDA r : IF r.success
                                 THEN [setSending(r.w, w.cm) EXCEPT !.timers = @ + 1]
                                 ELSE setError(r.w, w.cm, "copy"))
    IN  Then(w0, send)

\* handleSend(text)
handleSend(w0, text, raise) ==
    LET send(w) ==
            IF w.cm = 0 \/ w.cif = NoElem THEN w
            ELSE Then(setInputText(setSending(w, w.cm), text, w.cif, raise),
                      LAMBDA r : IF r.success THEN [r.w EXCEPT !.timers = @ + 1]
                                 ELSE setError(r.w, w.cm, "copy"))
    IN  Then(w0, send)

\* handleCancel()
handleCancel(w) == closeModal(w)

\* handleRetry(originalText)
handleRetry(w0, originalText) ==
    LET retry(w) ==
            IF w.cm = 0 THEN w
            ELSE requestProofread(setLoading(w, w.cm), originalText, NoPreset)
    IN  Then(w0, retry)

\* handlePresetChange(originalText, presetId)
handlePresetChange(w0, originalText, presetId) ==
    LET change(w) ==
            IF w.cm = 0 THEN w
            ELSE requestProofread(
                     setLoading([w EXCEPT !.cached.activePresetId =
                                              IF w.cached.loaded THEN presetId ELSE @],
                                w.cm),
                     originalText, presetId)
    IN  Then(w0, change)

\* The body of startProofreadFlow after the settings are there (lines 126-139).
openModal(w0, originalText, settings) ==
    LET open(w) ==
            IF w.next + 1 \in ModalIds
            THEN requestProofread(
                     show([w EXCEPT !.next = @ + 1, !.cm = w.next + 1,
                                    !.modals = [n \in ModalIds |->
                                                  [@[n] EXCEPT !.failed = NoReq]],
                                    !.modals[w.next + 1] = NewModal(originalText)],
                          w.next + 1, originalText, settings),
                     originalText, NoPreset)
            ELSE [w EXCEPT !.next = @ + 1]
    IN  Then(w0, open)

\* startProofreadFlow(originalText) up to its first suspension.
startProofreadFlow(w0, originalText) ==
    LET start(w) ==
            IF ~w.valid THEN w
            ELSE IF w.cached.loaded THEN openModal(w, originalText, w.cached)
            ELSE [w EXCEPT !.sreqs = Append(@, originalText)]
    IN  Then(w0, start)

\* handleKeyDown(event) starting the flow although no input field was found.
handleKeyDown_OpenAnyway(w0, key, isComposing) ==
    LET open(r) ==
            IF r.el = NoElem THEN startProofreadFlow(r.w, "")
            ELSE IF getInputText(r.w, r.el) = "" THEN r.w
            ELSE startProofreadFlow([r.w EXCEPT !.cif = r.el, !.tr.prevented = TRUE,
                                                !.tr.reached = @ \ {"target"}],
                                    getInputText(r.w, r.el))
        handle(w) ==
            IF isComposing \/ key # "ModEnter" \/ w.cm # 0 THEN w
            ELSE Then(findActiveInputField(w), open)
    IN  Then(w0, handle)

\* handleKeyDown(event): the capture listener initialize() registers on document.
handleKeyDown(w0, key, isComposing) ==
    LET open(r) ==
            IF r.el = NoElem THEN r.w
            ELSE IF getInputText(r.w, r.el) = "" THEN r.w
            ELSE startProofreadFlow([r.w EXCEPT !.cif = r.el, !.tr.prevented = TRUE,
                                                !.tr.reached = @ \ {"target"}],
                                    getInputText(r.w, r.el))
        handle(w) ==
            IF isComposing \/ key # "ModEnter" \/ w.cm # 0 THEN w
            ELSE Then(findActiveInputField(w), open)
    IN  Then(w0, handle)

\* A call this.callbacks.<cb>(arg): a member the callbacks object lacks is
\* undefined, and calling it raises a TypeError that ends the handler.
invoke(w0, m, cb, arg, raise) ==
    LET call(w) ==
            IF cb \notin Callbacks THEN [w EXCEPT !.tr.threw = Append(@, cb)]
            ELSE CASE cb = "onSend" ->
                        handleSend([w EXCEPT !.tr.fired = Append(@, cb)], arg, raise)
                   [] cb = "onCancel" ->
                        handleCancel([w EXCEPT !.tr.fired = Append(@, cb)])
                   [] cb = "onRetry" ->
                        handleRetry([w EXCEPT !.tr.fired = Append(@, cb)],
                                    w.modals[m].cbText)
                   [] cb = "onPresetChange" ->
                        handlePresetChange([w EXCEPT !.tr.fired = Append(@, cb)],
                                           w.modals[m].cbText, arg)
    IN  Then(w0, call)

\* ------------------------------------------------- modal.ts, keyboard
\* The text surface a shortcut reads before acting.
syncBefore(w, m) ==
    [w EXCEPT !.modals[m].originalText =
                  IF w.modals[m].beforeTextarea.exists
                  THEN w.modals[m].beforeTextarea.value ELSE @]

syncAfter(w, m) ==
    [w EXCEPT !.modals[m].proofreadText =
                  IF w.modals[m].afterTextarea.exists
                  THEN w.modals[m].afterTextarea.value ELSE @]

\* this.callbacks.onSend(this.proofreadText)
sendCorrected(w0, m, raise) ==
    Then(w0, LAMBDA w : invoke(w, m, "onSend", w.modals[m].proofreadText, raise))

\* handleKeyboardShortcut(e) of modal m. stop: stopImmediatePropagation was
\* called; raised: a callback call threw, which ends the interceptor as well.
handleKeyboardShortcut(w0, m, key, raise) ==
    LET shortcut(w) ==
            CASE key = "Escape" ->
                   [w |-> invoke(w, m, "onCancel", "", raise), stop |-> TRUE,
                    raised |-> FALSE]
              [] key = "Enter" /\ w.modals[m].state = "preview" ->
                   [w |-> invoke(syncBefore(w, m), m, "onSendOriginal", "", raise),
                    stop |-> TRUE, raised |-> "onSendOriginal" \notin Callbacks]
              [] key = "Enter" /\ w.modals[m].state = "ready" ->
                   [w |-> sendCorrected(syncAfter(w, m), m, raise),
                    stop |-> TRUE, raised |-> "onSend" \notin Callbacks]
              [] key = "ModEnter" /\ w.modals[m].state = "preview"
                                  /\ w.modals[m].hasApiKey ->
                   [w |-> invoke(syncBefore(w, m), m, "onProofread", "", raise),
                    stop |-> TRUE, raised |-> "onProofread" \notin Callbacks]
              [] key = "ModEnter" /\ w.modals[m].state = "preview"
                                  /\ ~w.modals[m].hasApiKey ->
                   [w |-> invoke(syncBefore(w, m), m, "onSendOriginal", "", raise),
                    stop |-> TRUE, raised |-> "onSendOriginal" \notin Callbacks]
              [] key = "ModEnter" /\ w.modals[m].state = "ready" ->
                   [w |-> sendCorrected(syncAfter(w, m), m, raise),
                    stop |-> TRUE, raised |-> "onSend" \notin Callbacks]
              [] key = "ModEnter" /\ w.modals[m].state \notin {"preview", "ready"} ->
                   [w |-> w, stop |-> TRUE, raised |-> FALSE]
              [] OTHER -> [w |-> w, stop |-> FALSE, raised |-> FALSE]
    IN  Then(w0, shortcut)

\* isEventFromModal(e): the event's path passes through modal m.
isEventFromModal(w, m) == w.act = Overlay(m)

\* The interceptor without its final e.stopPropagation().
boundEventInterceptor_NoStopInside(w0, m, key, raise) ==
    LET fromModal == isEventFromModal(w0, m)
        immediate(w) == [w EXCEPT !.tr.reached = @ \ {"documentLate", "target"}]
        propagation(r) ==
            IF r.raised \/ r.stop THEN [w |-> immediate(r.w), stop |-> TRUE]
            ELSE IF ~fromModal THEN [w |-> immediate(r.w), stop |-> TRUE]
            ELSE [w |-> r.w, stop |-> FALSE]
    IN  Then(handleKeyboardShortcut(w0, m, key, raise), propagation)

\* The interceptor of setupEventInterception for a keydown; the result says
\* whether later listeners on document are cut off.
boundEventInterceptor(w0, m, key, raise) ==
    LET fromModal == isEventFromModal(w0, m)
        immediate(w) == [w EXCEPT !.tr.reached = @ \ {"documentLate", "target"}]
        propagation(r) ==
            IF r.raised \/ r.stop THEN [w |-> immediate(r.w), stop |-> TRUE]
            ELSE IF ~fromModal THEN [w |-> immediate(r.w), stop |-> TRUE]
            ELSE [w |-> [r.w EXCEPT !.tr.reached = @ \ {"target"}], stop |-> FALSE]
    IN  Then(handleKeyboardShortcut(w0, m, key, raise), propagation)

\* The interceptors registered when the dispatch began, in registration order;
\* one removed meanwhile is skipped, one that stopped the event ends the run.
RECURSIVE runInterceptors(_, _, _, _)
runInterceptors(w0, ls, key, raise) ==
    LET run(w) ==
            IF ls = <<>> THEN w
            ELSE IF ~w.modals[Head(ls)].boundEventInterceptor
            THEN runInterceptors(w, Tail(ls), key, raise)
            ELSE Then(boundEventInterceptor(w, Head(ls), key, raise),
                      LAMBDA r : IF r.stop THEN r.w
                                 ELSE runInterceptors(r.w, Tail(ls), key, raise))
    IN  Then(w0, run)

\* A keydown on document, capture phase: handleKeyDown was registered first.
dispatchKeyDown(w0, key, isComposing, raise) ==
    Then([w0 EXCEPT !.tr.reached = HostListeners],
         LAMBDA w : runInterceptors(handleKeyDown(w, key, isComposing), w.lis, key, raise))

\* The elements the selector of setupFocusTrap matches in the modal, in
\* document order: header (createHeader), content (createContent), footer
\* (createFooter). The textarea of state sending is disabled and matches
\* through its tabindex attribute.
focusableElements(md) ==
    (IF md.hasApiKey /\ md.state \notin {"loading", "sending"} THEN <<"select">> ELSE <<>>)
    \o <<"close">>
    \o (CASE md.state = "preview" -> <<"before">>
          [] md.state \in {"ready", "sending"} -> <<"after">>
          [] md.state = "error" -> <<"retry">>
          [] OTHER -> <<>>)
    \o (IF md.state = "preview"
        THEN IF md.hasApiKey THEN <<"proofread", "sendOriginal", "cancel">>
             ELSE <<"send", "cancel">>
        ELSE (IF md.state = "ready" THEN <<"copy">> ELSE <<>>)
             \o (IF md.state # "sending" THEN <<"cancel">> ELSE <<>>)
             \o (IF md.state = "ready" THEN <<"send">> ELSE <<>>))

\* The controls of the modal that take the focus, in tab order.
TabOrder(md) ==
    SelectSeq(focusableElements(md), LAMBDA c : ~(c = "after" /\ md.state = "sending"))

Position(order, c) == CHOOSE i \in 1..Len(order) : order[i] = c

\* The focusout listener of setupFocusOutPrevention, for a focus that leaves
\* the shadow tree of modal m from control c: the callback it hands to
\* requestAnimationFrame holds the element beforeTextarea || afterTextarea.
boundFocusOutHandler(w, m, c) ==
    LET md == w.modals[m]
        activeTextarea == IF md.beforeTextarea.exists THEN "before"
                          ELSE IF md.afterTextarea.exists THEN "after"
                          ELSE "none"
    IN  IF ~md.boundFocusOutHandler \/ activeTextarea = "none" THEN w
        ELSE [w EXCEPT !.frames = Append(@, [m |-> m, surface |-> activeTextarea,
                                             from |-> c])]

\* The focus leaves whatever overlay control has it.
leaveOverlay(w) ==
    IF w.sa = "none" THEN w
    ELSE LET m == CHOOSE n \in ModalIds : w.act = Overlay(n)
         IN  boundFocusOutHandler([w EXCEPT !.act = "body", !.sa = "none"], m, w.sa)

\* element.focus() on control c of modal m: nothing happens unless the
\* element is in the tree of an attached modal and enabled.
focus(w, m, c) ==
    LET md == w.modals[m]
        there == /\ md.attached
                 /\ \E i \in 1..Len(TabOrder(md)) : TabOrder(md)[i] = c
                 /\ c = "before" => md.beforeTextarea.attached
                 /\ c = "after" => md.afterTextarea.attached
    IN  IF ~there THEN w
        ELSE IF w.act = Overlay(m) THEN [w EXCEPT !.sa = c]
        ELSE [leaveOverlay(w) EXCEPT !.act = Overlay(m), !.sa = c]

\* The keydown listener setupFocusTrap adds to the modal element.
focusTrap(w, m, shift) ==
    LET els == focusableElements(w.modals[m])
        firstElement == els[1]
        lastElement == els[Len(els)]
    IN  IF shift /\ w.sa = firstElement
        THEN focus([w EXCEPT !.tr.prevented = TRUE], m, lastElement)
        ELSE IF ~shift /\ w.sa = lastElement
        THEN focus([w EXCEPT !.tr.prevented = TRUE], m, firstElement)
        ELSE w

\* A Tab keydown on the focused control of modal m: the capture listeners on
\* document, then the listener of the focus trap if the event gets there,
\* then, unless prevented, the browser moves the focus along the tab order
\* and out of the overlay at its ends.
dispatchTab(w0, m, shift) ==
    LET trap(w) ==
            IF "target" \in w.tr.reached /\ w.act = Overlay(m) THEN focusTrap(w, m, shift)
            ELSE w
        navigate(w) ==
            IF w.tr.prevented \/ w.act # Overlay(m) \/ w.sa = "none" THEN w
            ELSE LET order == TabOrder(w.modals[m])
                     next == Position(order, w.sa) + (IF shift THEN -1 ELSE 1)
                 IN  IF next \in 1..Len(order) THEN [w EXCEPT !.sa = order[next]]
                     ELSE leaveOverlay(w)
    IN  Then(Then(dispatchKeyDown(w0, "Tab", FALSE, 0), trap), navigate)

\* The overlay on top: the one appended to document.body last.
Attached == {m \in ModalIds : modals[m].attached}

Top == CHOOSE m \in Attached : \A n \in Attached : n <= m

\* ------------------------------------------------------------ actions
Init ==
    /\ currentModal = 0
    /\ currentInputField = NoElem
    /\ cachedSettings = NoSettings
    /\ cachedInputField = NoElem
    /\ contextValid = TRUE
    /\ apiKeyStored \in BOOLEAN
    /\ settingsReqs = <<"">>
    /\ proofReqs = <<>>
    /\ timers = 0
    /\ modals = [m \in ModalIds |-> NoModal]
    /\ nextModal = 0
    /\ host = [e \in Elems |-> [ce |-> e \in EditableEls, inert |-> FALSE, text |-> "",
                             hidden |-> FALSE, visible |-> TRUE, attached |-> TRUE]]
    /\ listeners = <<>>
    /\ activeElement = "body"
    /\ shadowActive = "none"
    /\ frames = <<>>
    /\ capacity = MaxRequests
    /\ storage = NoStorage
    /\ markup = NoMarkup
    /\ trace = NoTrace

\* The user presses a key.
KeyDown ==
    \E key \in Keys, isComposing \in BOOLEAN :
        \E raise \in IF key \in {"Enter", "ModEnter"} /\ listeners # <<>>
                     THEN FlowRaiseAt ELSE {0} :
            Commit(dispatchKeyDown(Begin(key), key, isComposing, raise))

\* The callback of loadSettings' sendMessage runs; ok = FALSE is lastError set.
SettingsResponse ==
    \E i \in 1..Len(settingsReqs), ok \in BOOLEAN :
        LET w == [Begin("") EXCEPT !.sreqs = Remove(@, i)]
            settings == [loaded |-> TRUE, apiKey |-> apiKeyStored, activePresetId |-> "p1"]
            text == settingsReqs[i]
        IN  IF ~ok THEN Commit(w)
            ELSE IF text = "" THEN Commit([w EXCEPT !.cached = settings])
            ELSE Commit(openModal([w EXCEPT !.cached = settings], text, settings))

\* The callback of requestProofread's sendMessage runs.
ProofreadResponse ==
    \E i \in 1..Len(proofReqs), outcome \in {"lastError", "success", "failure"},
       t \in CorrectedTexts :
        LET w == [Begin("") EXCEPT !.reqs = Remove(@, i),
                                   !.tr.channel = IF outcome = "lastError" /\ currentModal # 0
                                                  THEN "lastError" ELSE ""]
            failure(e) == [e EXCEPT !.modals[e.cm].failed = proofReqs[i]]
        IN  IF w.cm = 0 THEN Commit(w)
            ELSE CASE outcome = "lastError" ->
                        Commit(failure(setError(w, w.cm, "communication")))
                   [] outcome = "success" -> Commit(setResult(w, w.cm, t))
                   [] outcome = "failure" ->
                        Commit(failure(setError(w, w.cm, "service")))

\* The timer handleSend set fires: triggerSend(currentInputField); closeModal().
SendTimer ==
    /\ timers > 0
    /\ LET w == [Begin("") EXCEPT !.timers = @ - 1]
       IN  Commit(closeModal(triggerSend(w, w.cif)))

\* Clicks on the overlay on top.
ClickCancel ==
    /\ Attached # {}
    /\ Commit(invoke(Begin(""), Top, "onCancel", "", 0))

ClickRetry ==
    /\ Attached # {}
    /\ modals[Top].state = "error"
    /\ \E throws \in BOOLEAN :
          Commit(invoke(BeginSend("", throws), Top, "onRetry", "", 0))

ClickSend ==
    /\ Attached # {}
    /\ modals[Top].state = "ready"
    /\ \E raise \in FlowRaiseAt :
          Commit(invoke(Begin(""), Top, "onSend", modals[Top].proofreadText, raise))

\* The buttons of the preview footer.
ClickPreview ==
    /\ Attached # {}
    /\ modals[Top].state = "preview"
    /\ \E cb \in {"onProofread", "onSendOriginal"} :
          /\ cb = "onProofread" => modals[Top].hasApiKey
          /\ Commit(invoke(syncBefore(Begin(""), Top), Top, cb, "", 0))

\* The change listener of the preset select.
ChangePreset ==
    /\ Attached # {}
    /\ modals[Top].hasApiKey
    /\ modals[Top].state \notin {"loading", "sending"}
    /\ \E p \in Presets \ {modals[Top].activePresetId} :
          Commit(invoke([Begin("") EXCEPT !.modals[Top].activePresetId = p],
                        Top, "onPresetChange", p, 0))

\* The input listeners of the two text surfaces.
EditBefore ==
    /\ Attached # {}
    /\ modals[Top].beforeTextarea.attached
    /\ \E t \in EditedTexts :
          Commit([Begin("") EXCEPT !.modals[Top].beforeTextarea.value = t,
                                                !.modals[Top].originalText = t,
                                                !.act = Overlay(Top)])

EditAfter ==
    /\ Attached # {}
    /\ modals[Top].afterTextarea.attached
    /\ ~modals[Top].afterTextarea.disabled
    /\ \E t \in EditedTexts :
          Commit([Begin("") EXCEPT !.modals[Top].afterTextarea.value = t,
                                               !.modals[Top].proofreadText = t,
                                               !.act = Overlay(Top)])

\* The focus moves into the overlay on top (its focus timer, or a click).
FocusOverlay ==
    /\ Attached # {}
    /\ activeElement # Overlay(Top)
    /\ Commit([Begin("") EXCEPT !.act = Overlay(Top)])

\* The user focuses a host input, and types into the composer or empties it
\* (the other editable element, a thread input, stays empty).
HostFocus ==
    /\ Focusable(World, "composer")
    /\ activeElement # "composer"
    /\ Commit([Begin("") EXCEPT !.act = "composer"])

HostType ==
    \E t \in TypedTexts \cup {""} :
        /\ activeElement = "composer"
        /\ Focusable(World, activeElement)
        /\ host[activeElement].text # t
        /\ Commit([Begin("") EXCEPT !.host[activeElement].text = t])

\* The extension is updated or unloaded: chrome.runtime.id is gone.
InvalidateContext ==
    /\ contextValid
    /\ Commit([Begin("") EXCEPT !.valid = FALSE])

Next ==
    \/ KeyDown
    \/ SettingsResponse
    \/ ProofreadResponse
    \/ SendTimer
    \/ ClickCancel
    \/ ClickRetry
    \/ ClickSend
    \/ ClickPreview
    \/ ChangePreset
    \/ EditBefore
    \/ EditAfter
    \/ FocusOverlay
    \/ HostFocus
    \/ HostType
    \/ InvalidateContext

Spec == Init /\ [][Next]_vars

\* ------------------------------------------ focus inside the overlay
\* The focus goes to a control of the overlay on top: a click, or the timer
\* of setupFocusTrap and setResult.
FocusControl ==
    /\ Attached # {}
    /\ \E i \in 1..Len(TabOrder(modals[Top])) :
          /\ ~(activeElement = Overlay(Top) /\ shadowActive = TabOrder(modals[Top])[i])
          /\ Commit(focus(Begin("focus"), Top, TabOrder(modals[Top])[i]))

\* The user presses Tab or Shift+Tab on the focused control.
TabKey ==
    \E m \in ModalIds, shift \in BOOLEAN :
        /\ activeElement = Overlay(m)
        /\ shadowActive # "none"
        /\ Commit(dispatchTab(Begin(IF shift THEN "ShiftTab" ELSE "Tab"), m, shift))

\* The focus leaves the overlay: the user clicks into the browser's own
\* interface, or a script of the host moves the focus.
FocusLeave ==
    /\ shadowActive # "none"
    /\ Commit(leaveOverlay(Begin("leave")))

\* The next animation frame: the callback of a focus-out handler runs.
AnimationFrame ==
    /\ frames # <<>>
    /\ Commit(focus([Begin("frame") EXCEPT !.frames = Tail(@)],
                    frames[1].m, frames[1].surface))

NextFocus ==
    \/ HostFocus
    \/ HostType
    \/ KeyDown
    \/ SettingsResponse
    \/ ProofreadResponse
    \/ FocusControl
    \/ TabKey
    \/ FocusLeave
    \/ AnimationFrame

SpecFocus == Init /\ [][NextFocus]_vars

\* ------------------------------------------- slack-dom on its own
\* A page without an overlay: which of the host inputs are editable, whether
\* the composer's container is inert, what the composer holds, where the
\* focus is, and what findActiveInputField cached earlier.
InitDom ==
    /\ currentModal = 0
    /\ currentInputField = NoElem
    /\ cachedSettings = NoSettings
    /\ cachedInputField \in EditableEls \cup {NoElem}
    /\ contextValid = TRUE
    /\ apiKeyStored = FALSE
    /\ settingsReqs = <<>>
    /\ proofReqs = <<>>
    /\ timers = 0
    /\ modals = [m \in ModalIds |-> NoModal]
    /\ nextModal = 0
    /\ \E editable \in SUBSET EditableEls, inert \in BOOLEAN, t \in TypedTexts \cup {""} :
          host = [e \in Elems |->
                    [ce |-> e \in editable, inert |-> inert /\ e \in InputContainers,
                     text |-> IF e = MessageInputEl THEN t ELSE "",
                     hidden |-> FALSE, visible |-> TRUE, attached |-> TRUE]]
    /\ listeners = <<>>
    /\ activeElement \in EditableEls \cup {"body"}
    /\ shadowActive = "none"
    /\ frames = <<>>
    /\ capacity = MaxRequests
    /\ storage = NoStorage
    /\ markup = NoMarkup
    /\ trace = NoTrace

\* A call of setInputText(text, inputField).
SetText ==
    \E text \in CorrectedTexts \cup EditedTexts, inputField \in EditableEls \cup {NoElem},
       raise \in RaiseAt :
        Commit(setInputText(Begin(""), text, inputField, raise).w)

NextDom == SetText

SpecDom == InitDom /\ [][NextDom]_vars

\* ------------------------------------------------ the composer locator
\* What keeps findActiveInputField from taking an element: its
\* contenteditable attribute is not "true", an ancestor is aria-hidden, its
\* computed style hides it, or it was removed from the document.
Conditions == {"ok", "notEditable", "ariaHidden", "invisible", "detached"}

\* A page without an overlay: the condition of each host input, what the
\* composer holds, where the focus is, what findActiveInputField cached
\* earlier, and whether the settings are loaded.
InitLocator ==
    /\ currentModal = 0
    /\ currentInputField = NoElem
    /\ cachedSettings \in {NoSettings,
                           [loaded |-> TRUE, apiKey |-> FALSE, activePresetId |-> "p1"]}
    /\ cachedInputField \in EditableEls \cup {NoElem}
    /\ contextValid = TRUE
    /\ apiKeyStored = FALSE
    /\ settingsReqs = <<>>
    /\ proofReqs = <<>>
    /\ timers = 0
    /\ modals = [m \in ModalIds |-> NoModal]
    /\ nextModal = 0
    /\ \E cond \in [EditableEls -> Conditions], t \in TypedTexts \cup {""} :
          host = [e \in Elems |->
                    [ce |-> e \in EditableEls /\ cond[e] # "notEditable",
                     inert |-> FALSE,
                     text |-> IF e = MessageInputEl THEN t ELSE "",
                     hidden |-> e \in EditableEls /\ cond[e] = "ariaHidden",
                     visible |-> e \in EditableEls => cond[e] # "invisible",
                     attached |-> e \in EditableEls => cond[e] # "detached"]]
    /\ listeners = <<>>
    /\ activeElement \in {e \in EditableEls : host[e].attached} \cup {"body"}
    /\ shadowActive = "none"
    /\ frames = <<>>
    /\ capacity = MaxRequests
    /\ storage = NoStorage
    /\ markup = NoMarkup
    /\ trace = NoTrace

\* A call of findActiveInputField().
Find == Commit(findActiveInputField(Begin("find")).w)

\* The host re-renders: it removes an input from the document, and the
\* focus, if the input had it, falls back to body.
HostDetach ==
    \E e \in EditableEls :
        /\ host[e].attached
        /\ Commit([Begin("detach") EXCEPT !.host[e].attached = FALSE,
                                          !.act = IF @ = e THEN "body" ELSE @])

\* The host re-renders: it inserts an input into the document.
HostAttach ==
    \E e \in EditableEls :
        /\ ~host[e].attached
        /\ Commit([Begin("attach") EXCEPT !.host[e].attached = TRUE])

\* The user presses Cmd/Ctrl+Enter on this page.
OpenShortcut == Commit(dispatchKeyDown(Begin("ModEnter"), "ModEnter", FALSE, 0))

NextLocator ==
    \/ Find
    \/ HostDetach
    \/ HostAttach
    \/ OpenShortcut

SpecLocator == InitLocator /\ [][NextLocator]_vars

\* ------------------------------------ the host replaces the composer
\* A page on which the settings are loaded, with or without an API key, and
\* the composer holds a text; the run lets inFlight requests overlap.
Session(inFlight) ==
    /\ currentModal = 0
    /\ currentInputField = NoElem
    /\ \E key \in BOOLEAN :
          /\ apiKeyStored = key
          /\ cachedSettings = [loaded |-> TRUE, apiKey |-> key, activePresetId |-> "p1"]
    /\ cachedInputField = NoElem
    /\ contextValid = TRUE
    /\ settingsReqs = <<>>
    /\ proofReqs = <<>>
    /\ timers = 0
    /\ modals = [m \in ModalIds |-> NoModal]
    /\ nextModal = 0
    /\ \E t \in TypedTexts :
          host = [e \in Elems |->
                    [ce |-> e \in EditableEls, inert |-> FALSE,
                     text |-> IF e = MessageInputEl THEN t ELSE "",
                     hidden |-> FALSE, visible |-> TRUE, attached |-> TRUE]]
    /\ listeners = <<>>
    /\ activeElement \in {MessageInputEl, "body"}
    /\ shadowActive = "none"
    /\ frames = <<>>
    /\ capacity = inFlight
    /\ storage = NoStorage
    /\ markup = NoMarkup
    /\ trace = NoTrace

InitSession == Session(MaxRequests)

NextReplace ==
    \/ KeyDown
    \/ ProofreadResponse
    \/ ClickSend
    \/ SendTimer
    \/ HostDetach
    \/ HostAttach

SpecReplace == InitSession /\ [][NextReplace]_vars

\* ------------------------------------------- requests that overlap
InitRace == Session(MaxOverlapping)

NextRace ==
    \/ KeyDown
    \/ ProofreadResponse
    \/ ChangePreset
    \/ ClickRetry
    \/ ClickSend
    \/ SendTimer

SpecRace == InitRace /\ [][NextRace]_vars

\* ------------------------------------------------------------ properties
\* The text of the text surface modal m shows in its state.
Live(m) ==
    IF modals[m].state = "preview" THEN modals[m].beforeTextarea.value
    ELSE modals[m].afterTextarea.value

\* C1: at most one overlay session exists on the page at any time.
C1_AtMostOneOverlay == Cardinality(Attached) <= 1

\* C2: when a session is torn down, every element it marked inert is no
\* longer inert and the composer's contentEditable flag is what it was
\* before the session opened.
C2_TeardownRestores ==
    [][\A m \in ModalIds :
          (modals[m].shown /\ modals[m].hides = 0 /\ modals'[m].hides = 1)
          => /\ \A e \in modals[m].inertElements : ~host'[e].inert
             /\ host'[MessageInputEl].ce = modals[m].preCE]_vars

C2_Witness ==
    \E m \in ModalIds :
        /\ modals[m].hides = 1
        /\ modals[m].preCE
        /\ host[MessageInputEl].ce
        /\ \A e \in Elems : ~host[e].inert

\* C3: whenever no session is active, no host element carries an inert mark
\* or a non-editable flag a session set, and no interceptor is installed.
C3_NoSessionNoMarks ==
    currentModal = 0 =>
        /\ \A e \in Elems : ~host[e].inert
        /\ \A m \in ModalIds : modals[m].disabledInputField = NoElem
        /\ listeners = <<>>

\* C4: for every session that was opened, hide() runs exactly once on every
\* exit: never twice, and once by the time the session stops being current.
C4_ClosedExactlyOnce ==
    [][\A m \in ModalIds :
          /\ modals'[m].hides <= 1
          /\ (currentModal = m /\ currentModal' # m) => modals'[m].hides = 1]_vars

\* The program state of a world, without the history kept for the properties.
Page(w) == [w EXCEPT !.modals = [m \in ModalIds |-> [w.modals[m] EXCEPT !.hides = 0]],
                     !.tr = NoTrace]

\* C5: closeModal() and hide() are idempotent: a second call leaves the page
\* and the module state exactly as the first call left them.
C5_TeardownIdempotent ==
    /\ Page(closeModal(closeModal(World))) = Page(closeModal(World))
    /\ \A m \in ModalIds :
          modals[m].shown => Page(hide(hide(World, m), m)) = Page(hide(World, m))

C5_Witness ==
    \E m \in ModalIds : modals[m].hides = 1 /\ currentModal = 0 /\ timers > 0

\* C6: while a session is open, an Escape keydown fires the cancel callback
\* and ends the session the user has in front of them, whatever its state.
C6_EscapeEndsSession ==
    [][(trace'.key = "Escape" /\ Attached # {})
          => trace'.fired = <<"onCancel">> /\ ~modals'[Top].attached]_vars

\* The same for the session currentModal refers to (holds).
C6_EscapeEndsCurrent ==
    [][(trace'.key = "Escape" /\ currentModal # 0)
          => /\ trace'.fired = <<"onCancel">>
             /\ currentModal' = 0
             /\ modals'[currentModal].hides = 1]_vars

\* C7: a plain Enter in preview or ready hands the live value of the visible
\* text surface to the write-back.
C7_EnterSendsLive ==
    [][(trace'.key = "Enter" /\ currentModal # 0
           /\ modals[currentModal].state \in {"preview", "ready"})
          => /\ Len(trace'.wrote) = 1
             /\ trace'.wrote[1].el = currentInputField
             /\ trace'.wrote[1].text = Live(currentModal)]_vars

\* C8: Cmd/Ctrl+Enter in preview starts a correction when an API key is
\* configured and otherwise sends the original text; in ready it sends the
\* corrected text.
C8_ModEnter ==
    [][(trace'.key = "ModEnter" /\ currentModal # 0
           /\ modals[currentModal].state \in {"preview", "ready"})
          => IF modals[currentModal].state = "preview" /\ modals[currentModal].hasApiKey
             THEN /\ modals'[currentModal].state = "loading"
                  /\ trace'.wrote = <<>>
             ELSE /\ Len(trace'.wrote) = 1
                  /\ trace'.wrote[1].el = currentInputField
                  /\ trace'.wrote[1].text = Live(currentModal)]_vars

\* C9: while the session is loading, Enter and Cmd/Ctrl+Enter fire no
\* callback and change nothing of the session, the page or the module.
C9_InertWhileLoading ==
    [][(trace'.key \in {"Enter", "ModEnter"} /\ currentModal # 0
           /\ modals[currentModal].state = "loading")
          => /\ trace'.fired = <<>>
             /\ trace'.wrote = <<>>
             /\ modals'[currentModal] = modals[currentModal]
             /\ currentModal' = currentModal
             /\ currentInputField' = currentInputField
             /\ proofReqs' = proofReqs
             /\ settingsReqs' = settingsReqs
             /\ timers' = timers
             /\ host' = host
             /\ listeners' = listeners]_vars

\* The same while the loading session is the only overlay attached (holds).
C9_InertWhileLoadingAlone ==
    [][(trace'.key \in {"Enter", "ModEnter"} /\ currentModal # 0
           /\ Attached = {currentModal}
           /\ modals[currentModal].state = "loading")
          => /\ trace'.fired = <<>>
             /\ trace'.wrote = <<>>
             /\ modals' = modals
             /\ currentModal' = currentModal
             /\ proofReqs' = proofReqs
             /\ timers' = timers
             /\ host' = host]_vars

C9_Witness ==
    /\ currentModal # 0
    /\ modals[currentModal].state = "loading"
    /\ trace.key \in {"Enter", "ModEnter"}

\* The callback the shortcut semantics name for a state and a key.
Expected(st, key, hasApiKey) ==
    CASE key = "Escape" -> <<"onCancel">>
      [] key = "Enter" /\ st = "preview" -> <<"onSendOriginal">>
      [] key = "Enter" /\ st = "ready" -> <<"onSend">>
      [] key = "ModEnter" /\ st = "preview" ->
            IF hasApiKey THEN <<"onProofread">> ELSE <<"onSendOriginal">>
      [] key = "ModEnter" /\ st = "ready" -> <<"onSend">>
      [] OTHER -> <<>>

\* C10: one keydown fires the callback of its (state, shortcut) pair exactly
\* once, and no other callback.
C10_ExactlyOneCallback ==
    [][(trace'.key # "" /\ currentModal # 0)
          => trace'.fired = Expected(modals[currentModal].state, trace'.key,
                                     modals[currentModal].hasApiKey)]_vars

SpecifiedTransitions ==
    {<<"preview", "loading">>, <<"loading", "ready">>, <<"loading", "error">>,
     <<"error", "loading">>, <<"ready", "sending">>}

\* C12: a session opens in preview, and every later change of its state
\* while it is open is one of the specified transitions.
C12_OnlySpecifiedTransitions ==
    [][\A m \in ModalIds :
          /\ (~modals[m].attached /\ modals'[m].attached)
                => modals'[m].state = "preview"
          /\ (modals[m].attached /\ modals'[m].attached
                 /\ modals'[m].state # modals[m].state)
                => <<modals[m].state, modals'[m].state>> \in SpecifiedTransitions]_vars

\* C13: a session goes from preview to loading only with a credential
\* configured; without one no correction request is issued for it, and the
\* correction trigger (Cmd/Ctrl+Enter in preview) sends the text directly.
C13_CorrectionNeedsCredential ==
    [][/\ \A m \in ModalIds :
             (modals[m].attached /\ modals'[m].attached
                 /\ modals[m].state = "preview" /\ modals'[m].state = "loading")
                => modals[m].hasApiKey
       /\ Len(proofReqs') > Len(proofReqs)
             => currentModal' # 0 /\ modals'[currentModal'].hasApiKey
       /\ (trace'.key = "ModEnter" /\ currentModal # 0
              /\ modals[currentModal].state = "preview"
              /\ ~modals[currentModal].hasApiKey)
             => Len(trace'.wrote) = 1]_vars

\* C14: a retry from error issues a request with the text and the preset id
\* of the request whose failure put the session into error.
C14_RetryIdentical ==
    [][(trace'.fired = <<"onRetry">> /\ contextValid /\ currentModal # 0
           /\ modals[currentModal].state = "error"
           /\ modals[currentModal].failed # NoReq)
          => /\ Len(proofReqs') = Len(proofReqs) + 1
             /\ proofReqs'[Len(proofReqs')] = modals[currentModal].failed]_vars

\* C15: on a send request in ready the session is in sending, and its UI is
\* rendered for sending, when the write-back into the composer begins.
C15_SendingBeforeWriteBack ==
    [][(trace'.fired = <<"onSend">> /\ currentModal # 0
           /\ modals[currentModal].state = "ready" /\ currentInputField # NoElem)
          => /\ Len(trace'.wrote) = 1
             /\ trace'.wrote[1].state = "sending"
             /\ trace'.wrote[1].disabled]_vars

C15_Witness ==
    /\ currentModal # 0
    /\ modals[currentModal].state = "sending"
    /\ trace.fired = <<"onSend">>
    /\ Len(trace.wrote) = 1
    /\ trace.wrote[1].state = "sending"

\* A write-back of this step began with the current session in sending.
WroteInSending(tr) == \E i \in 1..Len(tr.wrote) : tr.wrote[i].state = "sending"

\* A write-back of this step failed.
WriteFailed(tr) == \E i \in 1..Len(tr.wrote) : ~tr.wrote[i].ok

C18_PreparedBeforeAttach ==
    \A i \in 1..Len(trace.opened) :
        /\ trace.opened[i].blurred
        /\ trace.opened[i].nonEditable
        /\ trace.opened[i].inert
        /\ trace.opened[i].intercepting

C18_Witness ==
    /\ Len(trace.opened) = 1
    /\ modals[trace.opened[1].m].attached
    /\ trace.opened[1].intercepting
    /\ trace.opened[1].nonEditable

\* C19: a write-back that completes dispatches beforeinput, then input, then
\* change, after the fragment was appended.
C19_EventOrder ==
    \A i \in 1..Len(trace.wrote) :
        trace.wrote[i].ok
            => SubSeq(trace.wrote[i].done, Len(trace.wrote[i].done) - 3,
                      Len(trace.wrote[i].done))
                  = <<"append", "beforeinput", "input", "change">>

\* C20: setInputText returns false when no element is resolvable or a step
\* raises, and true only when every step completed.
C20_SetTextTotal ==
    \A i \in 1..Len(trace.wrote) :
        /\ trace.wrote[i].ok <=> (trace.wrote[i].el # NoElem /\ trace.wrote[i].done = Steps)
        /\ trace.wrote[i].el = NoElem => trace.wrote[i].done = <<>>

C20_Witness ==
    /\ Len(trace.wrote) = 1
    /\ trace.wrote[1].el # NoElem
    /\ ~trace.wrote[1].ok
    /\ trace.wrote[1].done = <<"focus", "clear">>
    /\ host[trace.wrote[1].el].text = ""

\* C21: findActiveInputField returns the focused element if it is valid,
\* else the first attached, valid and visible match of the selectors, else
\* the cached handle if the document contains it, else nothing.
Focused == activeElement \in EditableEls /\ host[activeElement].ce /\ ~host[activeElement].hidden

Matches ==
    {i \in 1..Len(INPUT_SELECTORS) :
        LET e == host[INPUT_SELECTORS[i]]
        IN  e.attached /\ e.ce /\ ~e.hidden /\ e.visible}

CacheAttached == cachedInputField # NoElem /\ host[cachedInputField].attached

C21_FindPriority ==
    [][trace'.found # <<>>
         => /\ Len(trace'.found) = 1
            /\ Focused => trace'.found[1] = activeElement
            /\ ~Focused /\ Matches # {}
                 => \E i \in Matches : /\ \A j \in Matches : i <= j
                                       /\ trace'.found[1] = INPUT_SELECTORS[i]
            /\ ~Focused /\ Matches = {} /\ CacheAttached
                 => trace'.found[1] = cachedInputField
            /\ ~Focused /\ Matches = {} /\ ~CacheAttached
                 => trace'.found[1] = NoElem]_vars

C21_Witness ==
    /\ trace.key = "find"
    /\ trace.found = <<"composer">>
    /\ activeElement = "body"
    /\ ~host["composer"].visible
    /\ host["thread"].attached /\ host["thread"].hidden

\* C22: findActiveInputField never returns an element that is not in the
\* document when it is called.
C22_FoundIsAttached ==
    \A i \in 1..Len(trace.found) :
        trace.found[i] # NoElem => host[trace.found[i]].attached

C22_Witness ==
    /\ trace.key = "find"
    /\ trace.found = <<NoElem>>
    /\ cachedInputField # NoElem
    /\ ~host[cachedInputField].attached

\* C23: Cmd/Ctrl+Enter with no input field to be found changes nothing: no
\* modal is constructed or shown, no settings or correction request is sent,
\* no host element is marked, no interceptor is installed, and the key is
\* not suppressed.
C23_NoComposerNoSession ==
    [][trace'.key = "ModEnter" /\ trace'.found = <<NoElem>>
         => /\ UNCHANGED <<currentModal, currentInputField, modals, nextModal, host,
                           listeners, settingsReqs, proofReqs, timers, activeElement>>
            /\ ~trace'.prevented
            /\ trace'.opened = <<>>]_vars

C23_Witness ==
    /\ trace.key = "ModEnter"
    /\ trace.found = <<NoElem>>
    /\ cachedSettings.loaded
    /\ host[MessageInputEl].text # ""
    /\ currentModal = 0

\* What of the session's texts the overlay offers to copy: a text surface
\* in its tree, or the enabled copy button.
CopySurface(md) ==
    md.beforeTextarea.attached \/ md.afterTextarea.attached \/ md.state = "ready"

\* C24: when the messaging channel fails on a correction request, the
\* current overlay shows a reload instruction, stays attached with its
\* interceptor, and still offers the text to copy.
C24_ChannelFailureKeepsText ==
    [][trace'.channel # ""
         => /\ currentModal' # 0
            /\ modals'[currentModal'].attached
            /\ modals'[currentModal'].boundEventInterceptor
            /\ modals'[currentModal'].state = "error"
            /\ modals'[currentModal'].errorMessage \in {"reload", "communication"}
            /\ CopySurface(modals'[currentModal'])]_vars

\* C24, without the text: the overlay shows the reload instruction and
\* stays open.
C24_ChannelFailureShown ==
    [][trace'.channel # ""
         => /\ currentModal' # 0
            /\ modals'[currentModal'].attached
            /\ modals'[currentModal'].boundEventInterceptor
            /\ modals'[currentModal'].state = "error"
            /\ modals'[currentModal'].errorMessage \in {"reload", "communication"}]_vars

\* C25: when the focus has left a text surface of the current overlay, the
\* next animation frame puts it back on the text surface the overlay shows.
C25_FocusReverted ==
    [][(/\ trace'.key = "frame"
        /\ frames # <<>>
        /\ frames[1].from \in {"before", "after"}
        /\ frames[1].m = currentModal
        /\ modals[frames[1].m].attached)
          => /\ activeElement' = Overlay(frames[1].m)
             /\ shadowActive' \in {"before", "after"}]_vars

\* C26: Tab on the last enabled control of the overlay moves the focus to
\* the first, and Shift+Tab on the first moves it to the last.
First(md) == TabOrder(md)[1]

Last(md) == TabOrder(md)[Len(TabOrder(md))]

C26_TabWraps ==
    [][\A m \in ModalIds :
          (/\ trace'.key \in {"Tab", "ShiftTab"}
           /\ activeElement = Overlay(m)
           /\ m = currentModal
           /\ \/ trace'.key = "Tab" /\ shadowActive = Last(modals[m])
              \/ trace'.key = "ShiftTab" /\ shadowActive = First(modals[m]))
            => /\ activeElement' = Overlay(m)
               /\ shadowActive' = IF trace'.key = "Tab" THEN First(modals[m])
                                  ELSE Last(modals[m])]_vars

\* C26, the part about the interceptor: a Tab keydown in the overlay reaches
\* the listeners below document.
C26_TabReachesTrap ==
    [][trace'.key \in {"Tab", "ShiftTab"} => "target" \in trace'.reached]_vars

\* ---------------------------------------------------------------------------
\* slack-dom: the conversions between the composer's DOM and Slack markdown
\* ---------------------------------------------------------------------------

\* The pieces of a string that are one character the conversions look for.
Newline == "\n"

Blank == " "

\* The list marker of an unordered item ("• ") and the separator after
\* the number of an ordered item.
Bullet == "{bullet} "

Dot == ". "

\* The backquote.
Backtick == "{backquote}"

Fence == <<Backtick, Backtick, Backtick>>

RECURSIVE Flatten(_)
Flatten(seqs) == IF seqs = <<>> THEN <<>> ELSE Head(seqs) \o Flatten(Tail(seqs))

Min(S) == CHOOSE x \in S : \A y \in S : x <= y

\* String.prototype.trim() leaves nothing: the string is whitespace only.
isBlank(text) == \A i \in 1..Len(text) : text[i] \in {Blank, Newline}

\* Array.from(parent.children).indexOf(el) + 1: the position of the i-th child
\* node among the parent's element children.
indexOf(kids, i) == Cardinality({j \in 1..i : kids[j].tag # "#text"})

\* extractTextWithFormatting(node), with el.parentElement's tag and the
\* element's position in it passed along. An IMG carries at most the
\* data-stringify-emoji attribute here.
RECURSIVE extractTextWithFormatting(_, _, _)
extractTextWithFormatting(node, parent, index) ==
    IF node.tag = "#text" THEN node.text
    ELSE LET inner == Flatten([i \in 1..Len(node.kids) |->
                        extractTextWithFormatting(node.kids[i], node.tag,
                                                  indexOf(node.kids, i))])
         IN CASE node.tag \in {"B", "STRONG"} -> <<"*">> \o inner \o <<"*">>
              [] node.tag \in {"I", "EM"} -> <<"_">> \o inner \o <<"_">>
              [] node.tag = "CODE" ->
                    IF parent = "PRE" THEN inner ELSE <<Backtick>> \o inner \o <<Backtick>>
              [] node.tag \in {"S", "DEL", "STRIKE"} -> <<"~">> \o inner \o <<"~">>
              [] node.tag = "PRE" ->
                    Fence \o <<Newline>> \o inner \o <<Newline>> \o Fence
              [] node.tag = "BR" -> <<Newline>>
              [] node.tag = "IMG" -> node.text
              [] node.tag = "A" ->
                    IF node.href # <<>> /\ inner # <<>> /\ node.href # inner
                    THEN <<"<">> \o node.href \o <<"|">> \o inner \o <<">">>
                    ELSE IF inner # <<>> THEN inner ELSE node.href
              [] node.tag \in {"UL", "OL"} -> inner
              [] node.tag = "LI" ->
                    IF parent = "OL"
                    THEN <<ToString(index), Dot>> \o inner \o <<Newline>>
                    ELSE <<Bullet>> \o inner \o <<Newline>>
              [] node.tag \in {"P", "DIV"} ->
                    IF ~isBlank(inner) THEN inner \o <<Newline>> ELSE inner
              [] OTHER -> inner

\* text.replace(/\n$/, ''), without the removal
replaceTrailingNewline_Kept(text) == text

\* text.replace(/\n$/, '')
replaceTrailingNewline(text) ==
    IF text # <<>> /\ text[Len(text)] = Newline
    THEN SubSeq(text, 1, Len(text) - 1)
    ELSE text

\* getInputText(inputField) on a composer whose DOM is `field`, the child of
\* an element that is neither PRE nor a list
fieldText(field) == replaceTrailingNewline(extractTextWithFormatting(field, "", 0))

\* findEarliestMatch's null
NoMatch == [index |-> -1, length |-> 0, content |-> <<>>, tag |-> "", href |-> <<>>]

\* text.match(/<([^|>]+)\|([^>]+)>/): the matches pushed for the link pattern
linkMatch(text) ==
    LET bar(i) == Min({j \in i+1..Len(text) : text[j] \in {"|", ">"}})
        close(j) == Min({k \in j+1..Len(text) : text[k] = ">"})
        opens == {i \in 1..Len(text) :
                    /\ text[i] = "<"
                    /\ \E j \in i+1..Len(text) : text[j] \in {"|", ">"}
                    /\ text[bar(i)] = "|"
                    /\ bar(i) >= i + 2
                    /\ \E k \in bar(i)+1..Len(text) : text[k] = ">"
                    /\ close(bar(i)) >= bar(i) + 2}
    IN IF opens = {} THEN <<>>
       ELSE LET i == Min(opens)
                j == bar(i)
                k == close(j)
            IN <<[index |-> i - 1, length |-> k - i + 1,
                  content |-> SubSeq(text, j + 1, k - 1), tag |-> "a",
                  href |-> SubSeq(text, i + 1, j - 1)]>>

\* text.match(pattern.regex) for /d([^d]+)d/: the matches pushed for it
patternMatch(text, d, tag) ==
    LET close(i) == Min({k \in i+1..Len(text) : text[k] = d})
        opens == {i \in 1..Len(text) :
                    /\ text[i] = d
                    /\ \E k \in i+1..Len(text) : text[k] = d
                    /\ close(i) >= i + 2}
    IN IF opens = {} THEN <<>>
       ELSE LET i == Min(opens)
                k == close(i)
            IN <<[index |-> i - 1, length |-> k - i + 1,
                  content |-> SubSeq(text, i + 1, k - 1), tag |-> tag,
                  href |-> <<>>]>>

\* the matches array of findEarliestMatch, in the order they are pushed
matches(text) ==
    linkMatch(text) \o patternMatch(text, Backtick, "code")
                    \o patternMatch(text, "*", "b")
                    \o patternMatch(text, "_", "i")
                    \o patternMatch(text, "~", "s")

\* matches.reduce((earliest, current) =>
\*     current.index < earliest.index ? current : earliest)
RECURSIVE reduce(_, _)
reduce(earliest, rest) ==
    IF rest = <<>> THEN earliest
    ELSE reduce(IF Head(rest).index < earliest.index THEN Head(rest) ELSE earliest,
                Tail(rest))

\* findEarliestMatch returning the first match pushed, whatever its index
findEarliestMatch_FirstPushed(text) ==
    IF matches(text) = <<>> THEN NoMatch ELSE matches(text)[1]

findEarliestMatch(text) ==
    IF matches(text) = <<>> THEN NoMatch
    ELSE reduce(matches(text)[1], Tail(matches(text)))

\* document.createElement(tag).tagName
tagName(tag) ==
    CASE tag = "a" -> "A" [] tag = "code" -> "CODE" [] tag = "b" -> "B"
      [] tag = "i" -> "I" [] tag = "s" -> "S" [] tag = "pre" -> "PRE"
      [] tag = "br" -> "BR"

\* document.createElement(tag) with el.textContent = content and, for an
\* anchor, el.href = href
createElement(tag, content, href) ==
    [tag |-> tagName(tag),
     kids |-> IF content = <<>> THEN <<>> ELSE <<Text(content)>>,
     text |-> <<>>,
     href |-> IF tag = "a" THEN href ELSE <<>>]

\* parseSlackMarkdownLine(line): the child nodes of the fragment
RECURSIVE parseSlackMarkdownLine(_)
parseSlackMarkdownLine(remaining) ==
    IF Len(remaining) = 0 THEN <<>>
    ELSE LET earliestMatch == findEarliestMatch(remaining)
         IN IF earliestMatch # NoMatch
            THEN (IF earliestMatch.index > 0
                  THEN <<Text(SubSeq(remaining, 1, earliestMatch.index))>>
                  ELSE <<>>)
                 \o <<createElement(earliestMatch.tag, earliestMatch.content,
                                    earliestMatch.href)>>
                 \o parseSlackMarkdownLine(
                        SubSeq(remaining,
                               earliestMatch.index + earliestMatch.length + 1,
                               Len(remaining)))
            ELSE <<Text(remaining)>>

\* text.split('\n')
RECURSIVE split(_)
split(text) ==
    IF \A i \in 1..Len(text) : text[i] # Newline THEN <<text>>
    ELSE LET i == Min({k \in 1..Len(text) : text[k] = Newline})
         IN <<SubSeq(text, 1, i - 1)>> \o split(SubSeq(text, i + 1, Len(text)))

\* processInlineText(text, fragment): the nodes it appends
processInlineText(text) ==
    LET lines == split(text)
    IN Flatten([index \in 1..Len(lines) |->
            (IF index > 1 THEN <<createElement("br", <<>>, <<>>)>> ELSE <<>>)
            \o (IF lines[index] # <<>> THEN parseSlackMarkdownLine(lines[index])
                ELSE <<>>)])

\* three backticks start at position i
fenceAt(text, i) == i + 2 <= Len(text) /\ SubSeq(text, i, i + 2) = Fence

\* A match, or none, of codeBlockRegex
NoBlock == [found |-> FALSE, index |-> 0, from |-> 0, to |-> 0, end |-> 0]

\* codeBlockRegex without its two \n?, /```([\s\S]*?)```/g
codeBlock_NewlinesKept(text, lastIndex) ==
    LET opens == {i \in lastIndex+1..Len(text) :
                    /\ fenceAt(text, i)
                    /\ \E c \in i+3..Len(text) : fenceAt(text, c)}
    IN IF opens = {} THEN NoBlock
       ELSE LET i == Min(opens)
                c == Min({c \in i+3..Len(text) : fenceAt(text, c)})
            IN [found |-> TRUE, index |-> i - 1, from |-> i + 3, to |-> c - 1,
                end |-> c + 2]

\* codeBlockRegex.exec(text) from lastIndex, /```\n?([\s\S]*?)\n?```/g: the
\* opening fence, the start of the group and the closing fence of the
\* leftmost match, or no match
codeBlock(text, lastIndex) ==
    LET start(i) == IF i + 3 <= Len(text) /\ text[i + 3] = Newline
                    THEN i + 4 ELSE i + 3
        opens == {i \in lastIndex+1..Len(text) :
                    /\ fenceAt(text, i)
                    /\ \E c \in start(i)..Len(text) : fenceAt(text, c)}
    IN IF opens = {} THEN NoBlock
       ELSE LET i == Min(opens)
                c == Min({c \in start(i)..Len(text) : fenceAt(text, c)})
            IN [found |-> TRUE, index |-> i - 1, from |-> start(i),
                to |-> IF c - 1 >= start(i) /\ text[c - 1] = Newline
                       THEN c - 2 ELSE c - 1,
                end |-> c + 2]

\* convertMarkdownToHtml(text) from lastIndex on: the child nodes of the
\* fragment
RECURSIVE convertMarkdownToHtml(_, _)
convertMarkdownToHtml(text, lastIndex) ==
    LET match == codeBlock(text, lastIndex)
    IN IF match.found
       THEN (IF match.index > lastIndex
             THEN processInlineText(SubSeq(text, lastIndex + 1, match.index))
             ELSE <<>>)
            \o <<createElement("pre", SubSeq(text, match.from, match.to), <<>>)>>
            \o convertMarkdownToHtml(text, match.end)
       ELSE IF lastIndex < Len(text)
            THEN processInlineText(SubSeq(text, lastIndex + 1, Len(text)))
            ELSE <<>>

\* field.innerHTML = ''; field.appendChild(convertMarkdownToHtml(text))
appendChild(field, text) == [field EXCEPT !.kids = convertMarkdownToHtml(text, 0)]

\* ---------------------------------------------------------------------------
\* The conversions on their own: a composer's DOM is read, what was read is
\* written back and read again; a markdown text is written into an empty
\* composer.
\* ---------------------------------------------------------------------------

SmileEmoji == [El("IMG", <<>>) EXCEPT !.text = <<":smile:">>]

Item(t) == El("LI", <<Text(<<t>>)>>)

Leaves ==
    {Text(<<"a">>), Text(<<Blank>>), Text(<<"<", "u", "|", "u", ">">>),
     El("BR", <<>>), SmileEmoji}

Inlines == {El(t, <<Text(<<"a">>)>>) : t \in {"B", "I", "S", "CODE", "SPAN"}}

Anchors ==
    {[El("A", k) EXCEPT !.href = h] :
        k \in {<<>>, <<Text(<<"a">>)>>}, h \in {<<>>, <<"a">>, <<"u">>}}

Blocks ==
    {El(t, <<k>>) :
        t \in {"DIV", "P", "PRE"},
        k \in {Text(<<"a">>), Text(<<Blank>>), El("BR", <<>>),
               El("B", <<Text(<<"a">>)>>), El("CODE", <<Text(<<"a">>)>>)}}

Lists ==
    {El(t, items) :
        t \in {"UL", "OL"},
        items \in {<<Item("a")>>, <<Item("a"), Item("b")>>,
                   <<Text(<<Blank>>), Item("a")>>}}

Pool == Leaves \cup Inlines \cup Anchors \cup Blocks \cup Lists

\* <div><b>Hi</b> <i>there</i></div>
HiThere ==
    El("DIV", <<El("B", <<Text(<<"Hi">>)>>), Text(<<Blank>>),
                El("I", <<Text(<<"there">>)>>)>>)

\* <ol><li>a</li><li>b</li></ol>
OrderedAB == El("OL", <<Item("a"), Item("b")>>)

\* The composers: a div holding up to MaxKids nodes of the pool.
Fields ==
    {El("DIV", k) : k \in UNION {[1..n -> Pool] : n \in 0..MaxKids}}
        \cup {HiThere}

LineChars == {"a", "*", "_", Backtick, "~", "<", "|", ">"}

\* "Hello *world*, check `code` and <https://example.com|link>."
SampleLine ==
    <<"Hello ", "*", "world", "*", ", check ", Backtick, "code", Backtick, " and ",
      "<", "https://example.com", "|", "link", ">", ".">>

Lines == UNION {[1..n -> LineChars] : n \in 0..MaxLine} \cup {SampleLine}

\* A fenced block inside a larger text: before, the opening fence, the
\* body between optional newlines, the closing fence, after. The fences are
\* the only places where three backquotes meet: before does not end in a
\* backquote, and the body neither begins nor ends in one.
FencedParts ==
    {[kind |-> "fenced", before |-> b, lead |-> l, body |-> c, trail |-> t,
      after |-> a] :
        b \in {<<>>, <<"a">>, <<"*", "a", "*">>, <<"a", Newline>>,
               <<Backtick, "a", Backtick, Blank>>},
        l \in BOOLEAN,
        c \in {<<>>, <<"a">>, <<"*", "a", "*">>, <<"a", Newline, "_", "b", "_">>,
               <<"<", "u", "|", "a", ">">>, <<"a", Backtick, "b">>},
        t \in BOOLEAN,
        a \in {<<>>, <<"b">>, <<"_", "b", "_">>, <<Newline, "b">>,
               <<Backtick, "b", Backtick>>}}

Fenced(p) ==
    p.before \o Fence \o (IF p.lead THEN <<Newline>> ELSE <<>>) \o p.body
             \o (IF p.trail THEN <<Newline>> ELSE <<>>) \o Fence \o p.after

\* Everything but the conversions.
controller ==
    <<currentModal, currentInputField, cachedSettings, cachedInputField,
      contextValid, apiKeyStored, settingsReqs, proofReqs, timers, modals,
      nextModal, host, listeners, activeElement, shadowActive, frames, capacity,
      storage, trace>>

\* A page on which nothing has happened.
Idle ==
    /\ currentModal = 0
    /\ currentInputField = NoElem
    /\ cachedSettings = NoSettings
    /\ cachedInputField = NoElem
    /\ contextValid = TRUE
    /\ apiKeyStored = FALSE
    /\ settingsReqs = <<>>
    /\ proofReqs = <<>>
    /\ timers = 0
    /\ modals = [m \in ModalIds |-> NoModal]
    /\ nextModal = 0
    /\ host = [e \in Elems |-> [ce |-> e \in EditableEls, inert |-> FALSE, text |-> "",
                             hidden |-> FALSE, visible |-> TRUE, attached |-> TRUE]]
    /\ listeners = <<>>
    /\ activeElement = "body"
    /\ shadowActive = "none"
    /\ frames = <<>>
    /\ capacity = MaxRequests
    /\ trace = NoTrace

InitMarkup ==
    /\ Idle
    /\ storage = NoStorage
    /\ \/ \E field \in Fields :
             markup = [NoMarkup EXCEPT !.stage = "dom", !.field = field]
       \/ \E line \in Lines :
             markup = [NoMarkup EXCEPT !.stage = "markdown",
                                       !.field = El("DIV", <<>>), !.text = line,
                                       !.parts = [NoParts EXCEPT !.kind = "line"]]
       \/ \E p \in FencedParts :
             markup = [NoMarkup EXCEPT !.stage = "markdown",
                                       !.field = El("DIV", <<>>),
                                       !.text = Fenced(p), !.parts = p]

\* getInputText(field) on the composer as it was found ("dom") or as
\* setInputText left it ("set")
Extract ==
    /\ markup.stage \in {"dom", "set"}
    /\ markup' = [markup EXCEPT
                    !.stage = IF markup.stage = "dom" THEN "read" ELSE "reread",
                    !.text = fieldText(markup.field)]
    /\ UNCHANGED controller

\* setInputText(text, field), as far as the DOM goes, on the text read from
\* the composer ("read") or on a markdown text ("markdown")
Render ==
    /\ markup.stage \in {"read", "markdown"}
    /\ markup' = [markup EXCEPT
                    !.stage = IF markup.stage = "read" THEN "set" ELSE "rendered",
                    !.nodes = convertMarkdownToHtml(markup.text, 0),
                    !.field = appendChild(markup.field, markup.text)]
    /\ UNCHANGED controller

NextMarkup == Extract \/ Render

SpecMarkup == InitMarkup /\ [][NextMarkup]_vars

\* ---------------------------------------------------------------------------
\* The two loops of the rendering, an iteration at a time.
\* ---------------------------------------------------------------------------

\* remaining.substring(earliestMatch.index), the match kept
substring_FromMatch(remaining, earliestMatch) ==
    SubSeq(remaining, earliestMatch.index + 1, Len(remaining))

\* remaining.substring(earliestMatch.index + earliestMatch.length)
substring(remaining, earliestMatch) ==
    SubSeq(remaining, earliestMatch.index + earliestMatch.length + 1, Len(remaining))

\* The while loop of parseSlackMarkdownLine on a line: the test of its
\* condition and, if it holds, one run of its body.
Tokenize ==
    /\ \/ markup.stage = "markdown" /\ markup.parts.kind = "line"
       \/ markup.stage = "tokenizing"
    /\ \E remaining \in {IF markup.stage = "markdown" THEN markup.text
                        ELSE markup.remaining} :
       \E earliestMatch \in {findEarliestMatch(remaining)} :
           IF Len(remaining) = 0
           THEN markup' = [markup EXCEPT !.stage = "tokenized", !.remaining = remaining]
           ELSE IF earliestMatch # NoMatch
           THEN markup' =
                  [markup EXCEPT
                     !.stage = "tokenizing",
                     !.nodes = @ \o (IF earliestMatch.index > 0
                                     THEN <<Text(SubSeq(remaining, 1,
                                                        earliestMatch.index))>>
                                     ELSE <<>>)
                                 \o <<createElement(earliestMatch.tag,
                                                    earliestMatch.content,
                                                    earliestMatch.href)>>,
                     !.remaining = substring(remaining, earliestMatch)]
           ELSE markup' = [markup EXCEPT !.stage = "tokenized",
                                         !.nodes = @ \o <<Text(remaining)>>,
                                         !.remaining = remaining]
    /\ UNCHANGED controller

\* The while loop of convertMarkdownToHtml: one exec of codeBlockRegex and,
\* if it matches, one run of the body; if not, the lines after the loop.
Scan ==
    /\ markup.stage \in {"markdown", "scanning"}
    /\ \E text \in {markup.text} : \E lastIndex \in {markup.lastIndex} :
       \E match \in {codeBlock(text, lastIndex)} :
           IF match.found
           THEN markup' =
                  [markup EXCEPT
                     !.stage = "scanning",
                     !.nodes = @ \o (IF match.index > lastIndex
                                     THEN processInlineText(
                                              SubSeq(text, lastIndex + 1, match.index))
                                     ELSE <<>>)
                                 \o <<createElement("pre",
                                          SubSeq(text, match.from, match.to), <<>>)>>,
                     !.lastIndex = match.end]
           ELSE markup' =
                  [markup EXCEPT
                     !.stage = "converted",
                     !.nodes = @ \o (IF lastIndex < Len(text)
                                     THEN processInlineText(
                                              SubSeq(text, lastIndex + 1, Len(text)))
                                     ELSE <<>>)]
    /\ UNCHANGED controller

InitLoops == Idle /\ storage = NoStorage /\ markup = NoMarkup

\* parseSlackMarkdownLine is called with a line, or convertMarkdownToHtml
\* with a text.
Call ==
    /\ markup.stage = ""
    /\ \/ \E line \in Lines :
             markup' = [markup EXCEPT !.stage = "markdown", !.text = line,
                                      !.parts = [NoParts EXCEPT !.kind = "line"]]
       \/ \E p \in FencedParts :
             markup' = [markup EXCEPT !.stage = "markdown", !.text = Fenced(p),
                                      !.parts = p]
    /\ UNCHANGED controller

NextLoops == Call \/ Tokenize \/ Scan

\* Both loops run inside one call, which the engine runs to its end.
SpecLoops == InitLoops /\ [][NextLoops]_vars /\ WF_vars(Tokenize \/ Scan)

\* ---------------------------------------------------------------------------
\* utils/storage.ts: the settings kept in chrome.storage.local under
\* STORAGE_KEY and the operations of the options page on them. A value that
\* may be undefined is a sequence: <<>> or <<value>>.
\* ---------------------------------------------------------------------------
Preset(id, name) == [id |-> id, name |-> name]

\* utils/constants.ts: one preset, which is the active one, and no API key.
DEFAULT_STORAGE_DATA ==
    [apiKey |-> "", model |-> "m0", activePresetId |-> "default",
     presets |-> <<Preset("default", "n0")>>]

\* { ...a, ...b }
spread(a, b) ==
    [k \in DOMAIN a \cup DOMAIN b |-> IF k \in DOMAIN b THEN b[k] ELSE a[k]]

\* What the callback of chrome.storage.local.get resolves getStorageData
\* with, given result[STORAGE_KEY].
getStorageData(data) ==
    IF data # <<>> THEN spread(DEFAULT_STORAGE_DATA, data[1])
    ELSE DEFAULT_STORAGE_DATA

\* setStorageData: const updated = { ...current, ...data }
updated(current, data) == spread(current, data)

\* What addPreset hands to setStorageData.
addPreset(data, preset) == [presets |-> Append(data.presets, preset)]

\* What updatePreset hands to setStorageData.
updatePreset(data, presetId, updates) ==
    [presets |-> [i \in 1..Len(data.presets) |->
                    IF data.presets[i].id = presetId
                    THEN spread(data.presets[i], updates)
                    ELSE data.presets[i]]]

\* What deletePreset hands to setStorageData.
deletePreset(data, presetId) ==
    LET presets == SelectSeq(data.presets, LAMBDA p : p.id # presetId)
        activePresetId == IF data.activePresetId = presetId /\ Len(presets) > 0
                          THEN presets[1].id
                          ELSE data.activePresetId
    IN  [presets |-> presets, activePresetId |-> activePresetId]

PresetOps == {"addPreset", "updatePreset", "deletePreset"}

\* The argument of setStorageData in call c, which for a preset operation
\* is made from the data its own getStorageData resolved with.
dataOf(c, data) ==
    CASE c.op = "addPreset" -> addPreset(data, Preset(c.id, c.name))
      [] c.op = "updatePreset" -> updatePreset(data, c.id, [name |-> c.name])
      [] c.op = "deletePreset" -> deletePreset(data, c.id)
      [] c.op = "saveApiKey" -> [apiKey |-> c.value]
      [] c.op = "saveModel" -> [model |-> c.value]
      [] c.op = "setActivePreset" -> [activePresetId |-> c.id]

\* The calls the options page makes.
StorageCall(op, id, name, value) ==
    [op |-> op, id |-> id, name |-> name, value |-> value]

StorageCalls ==
    {StorageCall("addPreset", id, "n1", "") : id \in {"p1", "p2"}}
    \cup {StorageCall("updatePreset", id, "n2", "") : id \in {"default", "p1"}}
    \cup {StorageCall("deletePreset", id, "", "") : id \in {"default", "p1"}}
    \cup {StorageCall("saveApiKey", "", "", "k1"),
          StorageCall("saveModel", "", "", "m1"),
          StorageCall("setActivePreset", "p1", "", "")}

\* Settings saved by an earlier visit of the options page.
SavedData ==
    [apiKey |-> "k0", model |-> "m0", activePresetId |-> "p1",
     presets |-> <<Preset("default", "n0"), Preset("p1", "n1")>>]

InitStorage ==
    /\ Idle
    /\ markup = NoMarkup
    /\ \E data \in {<<>>, <<SavedData>>} :
         storage = [NoStorage EXCEPT !.initial = data, !.stored = data]

\* Everything but the stored settings.
besidesStorage ==
    <<currentModal, currentInputField, cachedSettings, cachedInputField,
      contextValid, apiKeyStored, settingsReqs, proofReqs, timers, modals,
      nextModal, host, listeners, activeElement, shadowActive, frames, capacity,
      markup, trace>>

\* A handler of the options page calls an operation, which runs up to its
\* first chrome.storage.local.get: the one of its own getStorageData for a
\* preset operation, the one of setStorageData for the others.
Invoke ==
    /\ Len(storage.calls) < MaxCalls
    /\ \E c \in StorageCalls :
         storage' =
           [storage EXCEPT
              !.calls = Append(@, [call |-> c,
                                   pc |-> IF c.op \in PresetOps
                                          THEN "getStorageData" ELSE "current",
                                   data |-> IF c.op \in PresetOps THEN <<>>
                                            ELSE <<dataOf(c, DEFAULT_STORAGE_DATA)>>,
                                   updated |-> <<>>]),
              !.queue = Append(@, Len(storage.calls) + 1)]
    /\ UNCHANGED besidesStorage

\* chrome.storage.local answers the oldest request, a get: the callback
\* resolves getStorageData and the awaiting function runs on, a preset
\* operation into setStorageData and its get, setStorageData into
\* chrome.storage.local.set.
Get ==
    /\ storage.queue # <<>>
    /\ \E i \in {Head(storage.queue)} : \E data \in {getStorageData(storage.stored)} :
         LET c == storage.calls[i]
         IN  /\ c.pc \in {"getStorageData", "current"}
             /\ storage' =
                  [storage EXCEPT
                     !.calls[i] =
                        IF c.pc = "getStorageData"
                        THEN [c EXCEPT !.pc = "current",
                                       !.data = <<dataOf(c.call, data)>>]
                        ELSE [c EXCEPT !.pc = "set",
                                       !.updated = <<updated(data, c.data[1])>>],
                     !.queue = Append(Tail(@), i)]
    /\ UNCHANGED besidesStorage

\* chrome.storage.local answers the oldest request, a set: updated is
\* stored under STORAGE_KEY and the call resolves.
Set ==
    /\ storage.queue # <<>>
    /\ \E i \in {Head(storage.queue)} :
         /\ storage.calls[i].pc = "set"
         /\ storage' = [storage EXCEPT !.stored = storage.calls[i].updated,
                                       !.calls[i].pc = "resolved",
                                       !.queue = Tail(@)]
    /\ UNCHANGED besidesStorage

NextStorage == Invoke \/ Get \/ Set

SpecStorage == InitStorage /\ [][NextStorage]_vars

\* ---------------------------------------------------------------------------
\* C27: for every composer DOM built from the supported tags, reading it,
\* writing what was read back and reading again gives the text of the first
\* reading: extract(render(extract(d))) = extract(d).
\* ---------------------------------------------------------------------------
C27_RoundTrip ==
    [][(markup.stage = "set" /\ markup'.stage = "reread")
          => markup'.text = markup.text]_vars

\* The markdown a rendered node stands for.
markdownOf(node) ==
    LET content == IF node.kids = <<>> THEN <<>> ELSE node.kids[1].text
    IN CASE node.tag = "#text" -> node.text
         [] node.tag = "A" -> <<"<">> \o node.href \o <<"|">> \o content \o <<">">>
         [] node.tag = "CODE" -> <<Backtick>> \o content \o <<Backtick>>
         [] node.tag = "B" -> <<"*">> \o content \o <<"*">>
         [] node.tag = "I" -> <<"_">> \o content \o <<"_">>
         [] node.tag = "S" -> <<"~">> \o content \o <<"~">>
         [] OTHER -> <<>>

\* A link, code, bold, italic or strike span begins at position i of text.
SpanAt(text, i) ==
    \/ /\ text[i] \in {Backtick, "*", "_", "~"}
       /\ \E k \in i+2..Len(text) :
             /\ text[k] = text[i]
             /\ \A j \in i+1..k-1 : text[j] # text[i]
    \/ /\ text[i] = "<"
       /\ \E j \in i+2..Len(text), k \in i+4..Len(text) :
             /\ k >= j + 2
             /\ text[j] = "|"
             /\ text[k] = ">"
             /\ \A x \in i+1..j-1 : text[x] \notin {"|", ">"}
             /\ \A x \in j+1..k-1 : text[x] # ">"

\* The tag of the span that begins at position i.
SpanTag(text, i) ==
    CASE text[i] = "<" -> "A" [] text[i] = Backtick -> "CODE"
      [] text[i] = "*" -> "B" [] text[i] = "_" -> "I" [] text[i] = "~" -> "S"

\* ---------------------------------------------------------------------------
\* C28: rendering a line gives, in order, the nodes of its spans taken
\* earliest first: the nodes spell the line again, every formatted node has
\* the tag of the span that begins where it begins (a link with its href)
\* and holds the span's content as plain text, no text node holds a span,
\* and the sample line gives text "Hello ", bold "world", text ", check ",
\* code "code", text " and ", link "link" to https://example.com, text ".".
\* ---------------------------------------------------------------------------
C28_EarliestMatchFirst ==
    (markup.stage = "rendered" /\ markup.parts.kind = "line")
        => LET nodes == markup.nodes
               before(i) == Flatten([j \in 1..i-1 |-> markdownOf(nodes[j])])
           IN /\ Flatten([i \in 1..Len(nodes) |-> markdownOf(nodes[i])]) = markup.text
              /\ \A i \in 1..Len(nodes) :
                    IF nodes[i].tag = "#text"
                    THEN /\ nodes[i].text # <<>>
                         /\ \A j \in 1..Len(nodes[i].text) : ~SpanAt(nodes[i].text, j)
                         /\ i > 1 => nodes[i-1].tag # "#text"
                    ELSE /\ SpanAt(markup.text, Len(before(i)) + 1)
                         /\ nodes[i].tag = SpanTag(markup.text, Len(before(i)) + 1)
                         /\ Len(nodes[i].kids) = 1
                         /\ nodes[i].kids[1].tag = "#text"
                         /\ nodes[i].href # <<>> <=> nodes[i].tag = "A"
              /\ markup.text = SampleLine
                    => nodes = <<Text(<<"Hello ">>),
                                 El("B", <<Text(<<"world">>)>>),
                                 Text(<<", check ">>),
                                 El("CODE", <<Text(<<"code">>)>>),
                                 Text(<<" and ">>),
                                 [El("A", <<Text(<<"link">>)>>)
                                     EXCEPT !.href = <<"https://example.com">>],
                                 Text(<<".">>)>>

C28_Witness ==
    /\ markup.stage = "rendered"
    /\ markup.text = SampleLine
    /\ Len(markup.nodes) = 7

\* ---------------------------------------------------------------------------
\* C29: what is read from a composer agrees with the encode table. The text
\* of the recursion for the composer div is its children's texts followed by
\* one newline only if they are not blank; a bold child gives *x*, an italic
\* child _x_, the k-th item of an ordered list "k. x\n", an item of an
\* unordered list the bullet, x and a newline; <div><b>Hi</b> <i>there</i>
\* </div> gives "*Hi* _there_\n" and <ol><li>a</li><li>b</li></ol> gives
\* "1. a\n2. b\n" in the recursion, and getInputText returns the text of the
\* recursion without its last newline: "*Hi* _there_" for the first.
\* ---------------------------------------------------------------------------
C29_EncodeTable ==
    markup.stage = "read"
        => LET field == markup.field
               of(node, parent, index) == extractTextWithFormatting(node, parent, index)
               x(node) == Flatten([i \in 1..Len(node.kids) |->
                                     of(node.kids[i], node.tag, indexOf(node.kids, i))])
               raw == of(field, "", 0)
           IN /\ raw = IF isBlank(x(field)) THEN x(field) ELSE x(field) \o <<Newline>>
              /\ IF raw # <<>> /\ raw[Len(raw)] = Newline
                 THEN markup.text \o <<Newline>> = raw
                 ELSE markup.text = raw
              /\ \A i \in 1..Len(field.kids) :
                    LET kid == field.kids[i]
                        text == of(kid, "DIV", indexOf(field.kids, i))
                    IN /\ kid.tag = "B" => text = <<"*">> \o x(kid) \o <<"*">>
                       /\ kid.tag = "I" => text = <<"_">> \o x(kid) \o <<"_">>
                       /\ kid.tag \in {"P", "DIV"}
                            => text = IF isBlank(x(kid)) THEN x(kid)
                                      ELSE x(kid) \o <<Newline>>
                       /\ kid.tag = "OL"
                            => text = Flatten([k \in 1..Len(kid.kids) |->
                                  IF kid.kids[k].tag = "LI"
                                  THEN <<ToString(Cardinality(
                                            {j \in 1..k : kid.kids[j].tag = "LI"})),
                                         Dot>>
                                       \o x(kid.kids[k]) \o <<Newline>>
                                  ELSE kid.kids[k].text])
                       /\ kid.tag = "UL"
                            => text = Flatten([k \in 1..Len(kid.kids) |->
                                  IF kid.kids[k].tag = "LI"
                                  THEN <<Bullet>> \o x(kid.kids[k]) \o <<Newline>>
                                  ELSE kid.kids[k].text])
                       /\ kid = OrderedAB
                            => text = <<"1", Dot, "a", Newline, "2", Dot, "b", Newline>>
              /\ field = HiThere
                    => /\ raw = <<"*", "Hi", "*", Blank, "_", "there", "_", Newline>>
                       /\ markup.text = <<"*", "Hi", "*", Blank, "_", "there", "_">>

C29_Witness ==
    /\ markup.stage = "read"
    /\ markup.field = HiThere
    /\ markup.text = <<"*", "Hi", "*", Blank, "_", "there", "_">>

\* C29 as stated: with the trailing newline trimmed from the final result,
\* <div><b>Hi</b> <i>there</i></div> is read as "*Hi* _there_\n".
C29_StatedStrings ==
    (markup.stage = "read" /\ markup.field = HiThere)
        => markup.text = <<"*", "Hi", "*", Blank, "_", "there", "_", Newline>>

C31_WriteBackOnAttached ==
    [][\A i \in 1..Len(trace'.wrote) :
          trace'.wrote[i].el # NoElem => host[trace'.wrote[i].el].attached]_vars

\* ---------------------------------------------------------------------------
\* C32: when the session was cancelled during the delay between write-back
\* and submit, the timer that is still pending dispatches no submit.
\* ---------------------------------------------------------------------------
C32_NoSubmitAfterCancel ==
    [][(timers' < timers /\ currentModal = 0) => trace'.submitted = <<>>]_vars

\* ---------------------------------------------------------------------------
\* C33: once the current session is in sending, nothing takes it out of
\* sending but its end: no later event, a late correction response
\* included, puts it back into ready, where it could be sent again.
\* ---------------------------------------------------------------------------
C33_SendingIsFinal ==
    [][\A m \in ModalIds :
          (modals[m].state = "sending" /\ currentModal = m /\ currentModal' = m)
             => modals'[m].state = "sending"]_vars

\* ---------------------------------------------------------------------------
\* C34: a correction response that does not answer the request issued last
\* leaves every overlay as it is.
\* ---------------------------------------------------------------------------
C34_SupersededIgnored ==
    [][(/\ Len(proofReqs') < Len(proofReqs)
        /\ proofReqs' # SubSeq(proofReqs, 1, Len(proofReqs) - 1))
          => modals' = modals]_vars

\* ---------------------------------------------------------------------------
\* C35: at most one correction request is outstanding at any time.
\* ---------------------------------------------------------------------------
C35_OneRequestOutstanding == Len(proofReqs) <= 1

\* ---------------------------------------------------------------------------
\* C36: at the moment setInputText and triggerSend act on the composer it is
\* restored: editable, and neither it nor its container inert.
\* ---------------------------------------------------------------------------
Restored(e) ==
    /\ host[e].ce
    /\ ~host[e].inert
    /\ Parent(e) # NoElem => ~host[Parent(e)].inert

C36_WriteBackAfterRestore ==
    [][/\ \A i \in 1..Len(trace'.wrote) :
             trace'.wrote[i].el # NoElem => Restored(trace'.wrote[i].el)
       /\ \A i \in 1..Len(trace'.submitted) : Restored(trace'.submitted[i])]_vars

\* ---------------------------------------------------------------------------
\* C37: a keydown that belongs to an IME composition opens no session, and
\* in an open session it neither sends nor starts a correction.
\* ---------------------------------------------------------------------------
C37_ComposingKeyInert ==
    [][(\E key \in Keys, raise \in FlowRaiseAt :
            Commit(dispatchKeyDown(Begin(key), key, TRUE, raise)))
          => /\ nextModal' = nextModal
             /\ settingsReqs' = settingsReqs
             /\ trace'.wrote = <<>>
             /\ \A i \in 1..Len(trace'.fired) : trace'.fired[i] = "onCancel"]_vars

\* ---------------------------------------------------------------------------
\* C38: an opening Cmd/Ctrl+Enter that is kept from the host opens a session,
\* at once or when the settings it waits for arrive; the keystroke is never
\* swallowed without one.
\* ---------------------------------------------------------------------------
C38_SuppressedOpens ==
    [][(trace'.key = "ModEnter" /\ trace'.prevented /\ currentModal = 0)
          => \/ currentModal' # 0
             \/ Len(settingsReqs') > Len(settingsReqs)]_vars

\* ---------------------------------------------------------------------------
\* C39: rendering terminates for every markdown text: an iteration of the
\* tokenizer loop that is followed by another leaves a shorter remaining
\* text, an exec of the fence scan that matches moves lastIndex forward and
\* not past the end, and each loop comes to its end.
\* ---------------------------------------------------------------------------
C39_RenderingTerminates ==
    /\ [][(markup.stage \in {"markdown", "tokenizing"} /\ markup'.stage = "tokenizing")
             => Len(markup'.remaining)
                  < Len(IF markup.stage = "markdown" THEN markup.text
                        ELSE markup.remaining)]_vars
    /\ [][(markup.stage \in {"markdown", "scanning"} /\ markup'.stage = "scanning")
             => /\ markup'.lastIndex > markup.lastIndex
                /\ markup'.lastIndex <= Len(markup.text)]_vars
    /\ (markup.stage \in {"markdown", "tokenizing", "scanning"}
           ~> markup.stage \in {"tokenized", "converted"})

C39_Witness ==
    /\ markup.stage = "tokenized"
    /\ markup.text = SampleLine
    /\ markup.nodes = parseSlackMarkdownLine(SampleLine)
    /\ Len(markup.nodes) = 7

\* What is stored after call c has run alone on what was stored.
alone(c, stored) ==
    <<updated(getStorageData(stored), dataOf(c, getStorageData(stored)))>>

\* What may be stored after the calls numbered in S have run one after the
\* other, in any order, on what was stored.
RECURSIVE oneByOne(_, _)
oneByOne(S, stored) ==
    IF S = {} THEN {stored}
    ELSE UNION {oneByOne(S \ {i}, alone(storage.calls[i].call, stored)) : i \in S}

\* ---------------------------------------------------------------------------
\* C40: no update of the settings is lost under interleaving: once every
\* call has resolved, what is stored is what the calls leave when they run
\* one after the other in some order.
\* ---------------------------------------------------------------------------
C40_UpdatesNotLost ==
    (/\ Len(storage.calls) > 1
     /\ \A i \in 1..Len(storage.calls) : storage.calls[i].pc = "resolved")
        => storage.stored \in oneByOne(1..Len(storage.calls), storage.initial)

====
